---- MODULE Spec2Model ----
(***************************************************************************)
(* Model of the cranbrook-catering-api menu extraction engine:             *)
(* src/src/lib.rs (the Lambda query path) and src/src/main.rs (the axum    *)
(* server).  Text is modelled as TLA+ strings handled character by         *)
(* character, dates as day numbers (days since 1970-01-01) converted to    *)
(* and from year/month/day as chrono's NaiveDate does, and the HashMap of  *)
(* menu entries as a function from key strings to meal strings.            *)
(***************************************************************************)
EXTENDS Integers, Sequences, FiniteSets, TLC

VARIABLES
    crate,           \* "lib" (src/src/lib.rs) or "main" (src/src/main.rs)
    \* ---- parse_weekly_menu, one loop iteration per step
    week_start,      \* parse_weekly_menu's week_start argument
    lines,           \* text.lines().collect()
    pos,             \* number of lines the for loop has consumed
    st,              \* the locals of parse_weekly_menu (flags, buffers, out)
    pc,              \* "loop", "lunch", "dinner" or "done"
    \* ---- split_blocks / fill_first_line_per_day / is_junk_line applied alone
    fn_lines,        \* the lines argument
    fn_n,            \* expected_blocks, resp. days
    fn_ws,           \* week_start handed to fill_first_line_per_day
    fn_call,         \* "none" or the function that was applied
    fn_blocks,       \* result of split_blocks
    fn_out,          \* the out map after fill_first_line_per_day
    fn_line,         \* the line handed to is_junk_line (untrimmed)
    fn_junk,         \* result of is_junk_line
    fn_date,         \* the date handed to format_date
    fn_text,         \* the text handed to parse_date_param or to a week matcher
    fn_parsed,       \* the Option<NaiveDate> returned for fn_text
    \* ---- choose_inferred_week_start applied alone
    week_starts,     \* the week_starts slice
    requested_date,
    today,
    chosen,          \* the Option<NaiveDate> returned
    wk_pc,           \* "call" or "returned"
    \* ---- one query: fetch_meal_for_date (lib.rs) and get_meal (main.rs)
    links,           \* the menu links found: sequence of [week, pdf_week, doc]
    index,           \* the index of build_index (main.rs: the MenuIndex)
    b_pos,           \* build_index: number of links its for loop has consumed
    b_pc,            \* build_index: "loop", "done" (Ok(index)) or "failed" (Err)
    q_date,          \* the parsed date parameter
    q_period,        \* the period parameter as sent
    q_today,         \* Local::now().date_naive()
    lib_done,        \* fetch_meal_for_date has returned
    main_done,       \* get_meal has responded
    q_resolved,      \* target_week_start of fetch_meal_for_date (Option)
    q_via,           \* "direct", "mapped" or "none": the get that answered
    q_mapped_date,   \* mapped_date of fetch_meal_for_date
    answer_lib,      \* Ok(Some(meal)) / Ok(None) of fetch_meal_for_date
    answer_main,     \* Some(meal) of the 200 response / None for the 404
    \* ---- the server of main.rs: main and its concurrent get_meal handlers
    srv_pc,          \* main: "building", "serving" or "exited" (returned Err)
    shared_index,    \* the map inside Arc<Mutex<..>>, None before Arc::new
    lock,            \* the request whose handler holds the MutexGuard, or None
    reqs             \* per request: [pc, date, period, key, answer]

vars == <<crate, week_start, lines, pos, st, pc,
          fn_lines, fn_n, fn_ws, fn_call, fn_blocks, fn_out, fn_line, fn_junk,
          fn_date, fn_text, fn_parsed,
          week_starts, requested_date, today, chosen, wk_pc,
          links, index, b_pos, b_pc, q_date, q_period, q_today, lib_done, main_done,
          q_resolved, q_via, q_mapped_date, answer_lib, answer_main,
          srv_pc, shared_index, lock, reqs>>

parseVars == <<week_start, lines, pos, st, pc>>
fnVars    == <<fn_lines, fn_n, fn_ws, fn_call, fn_blocks, fn_out, fn_line, fn_junk,
               fn_date, fn_text, fn_parsed>>
textVars  == <<fn_date, fn_text, fn_parsed>>
weekVars  == <<week_starts, requested_date, today, chosen, wk_pc>>
queryVars == <<links, index, b_pos, b_pc, q_date, q_period, q_today, lib_done, main_done,
               q_resolved, q_via, q_mapped_date, answer_lib, answer_main,
               srv_pc, shared_index, lock, reqs>>
serverVars == <<srv_pc, shared_index, lock, reqs>>

Unused == "unused"   \* the value of a variable the specification does not use

\* Option<T>
None == <<>>
Some(x) == <<x>>

(***************************************************************************)
(* Bounds of the model.                                                    *)
(***************************************************************************)
MaxFnLines == 4    \* longest lines argument of the functions applied alone
MaxDays == 3       \* largest expected_blocks / days argument tried alone
MaxDocLines == 2   \* longest document made of arbitrary vocabulary lines
MaxBreakfastLines == 6 \* lines of a generated breakfast section
MaxSection == 6    \* most content lines in a generated lunch/dinner section
MaxLineLen == 3    \* longest generated line handed to is_junk_line
MaxWeeks == 2      \* most entries of week_starts
DateSpan == 10     \* requested/today range in days around the known weeks
MaxDateOffset == 1 \* days tried on each side of a date of interest
MaxRequests == 2   \* concurrent requests to the server
MaxLinks == 2      \* most menu links found on the page
QuerySpan == 10    \* last queried date, in days after the first queried one

(***************************************************************************)
(* Characters and strings (Rust str methods).                              *)
(***************************************************************************)
LowerChars == "abcdefghijklmnopqrstuvwxyz"
UpperChars == "ABCDEFGHIJKLMNOPQRSTUVWXYZ"
DigitChars == "0123456789"

CharAt(s, i) == SubSeq(s, i, i)
CharsOf(s) == {CharAt(s, i) : i \in 1..Len(s)}

RECURSIVE IndexIn(_, _, _)
IndexIn(c, s, i) ==
    IF i > Len(s) THEN 0
    ELSE IF CharAt(s, i) = c THEN i ELSE IndexIn(c, s, i + 1)

\* char::is_alphanumeric, on the ASCII letters and digits
AlphanumericChars == CharsOf(LowerChars) \cup CharsOf(UpperChars) \cup CharsOf(DigitChars)

is_alphanumeric(c) == c \in AlphanumericChars

\* char::is_whitespace, on the characters a line can hold
is_whitespace(c) == c \in {" ", "\t", "\r"}

\* str::trim_start: from the first character that is not whitespace
trim_start(s) ==
    LET kept == {i \in 1..Len(s) : ~is_whitespace(CharAt(s, i))}
    IN  IF kept = {} THEN ""
        ELSE SubSeq(s, CHOOSE i \in kept : \A j \in kept : i <= j, Len(s))

\* str::trim_end: up to the last character that is not whitespace
trim_end(s) ==
    LET kept == {i \in 1..Len(s) : ~is_whitespace(CharAt(s, i))}
    IN  IF kept = {} THEN ""
        ELSE SubSeq(s, 1, CHOOSE i \in kept : \A j \in kept : i >= j)

\* str::trim
trim(s) == trim_end(trim_start(s))

LowerOfUpper == [c \in CharsOf(UpperChars) |-> CharAt(LowerChars, IndexIn(c, UpperChars, 1))]

\* char::to_lowercase, on ASCII
LowerOfChar(c) == IF c \in DOMAIN LowerOfUpper THEN LowerOfUpper[c] ELSE c

\* to_lowercase of the characters i..j of s (the range is halved to keep the
\* evaluation shallow)
RECURSIVE LowerOfRange(_, _, _)
LowerOfRange(s, i, j) ==
    IF i > j THEN ""
    ELSE IF i = j THEN LowerOfChar(CharAt(s, i))
    ELSE LowerOfRange(s, i, (i + j) \div 2) \o LowerOfRange(s, (i + j) \div 2 + 1, j)

\* str::to_lowercase: character by character
to_lowercase(s) == LowerOfRange(s, 1, Len(s))

\* str::starts_with(pat)
starts_with(s, pat) == Len(s) >= Len(pat) /\ SubSeq(s, 1, Len(pat)) = pat

\* str::matches(pat).count(): non-overlapping matches, left to right
RECURSIVE MatchCountFrom(_, _, _)
MatchCountFrom(s, pat, i) ==
    LET found == {j \in i..(Len(s) - Len(pat) + 1) : SubSeq(s, j, j + Len(pat) - 1) = pat}
    IN  IF found = {} THEN 0
        ELSE LET first == CHOOSE j \in found : \A k \in found : j <= k
             IN  1 + MatchCountFrom(s, pat, first + Len(pat))

matches_count(s, pat) == MatchCountFrom(s, pat, 1)

\* str::contains(pat)
contains(s, pat) == \E i \in 1..(Len(s) - Len(pat) + 1) : SubSeq(s, i, i + Len(pat) - 1) = pat

\* [String]::join(sep)
RECURSIVE join(_, _)
join(ss, sep) ==
    IF Len(ss) = 0 THEN ""
    ELSE IF Len(ss) = 1 THEN ss[1]
    ELSE ss[1] \o sep \o join(Tail(ss), sep)

(***************************************************************************)
(* chrono::NaiveDate: a date is its day number; year, month and day are    *)
(* computed from it (proleptic Gregorian calendar).                        *)
(***************************************************************************)
DaysFromCivil(y, m, d) ==
    LET yy  == IF m <= 2 THEN y - 1 ELSE y
        era == yy \div 400
        yoe == yy - era * 400
        mp  == IF m > 2 THEN m - 3 ELSE m + 9
        doy == (153 * mp + 2) \div 5 + d - 1
        doe == yoe * 365 + yoe \div 4 - yoe \div 100 + doy
    IN  era * 146097 + doe - 719468

CivilFromDays(z) ==
    LET zz  == z + 719468
        era == zz \div 146097
        doe == zz - era * 146097
        yoe == (doe - doe \div 1460 + doe \div 36524 - doe \div 146096) \div 365
        doy == doe - (365 * yoe + yoe \div 4 - yoe \div 100)
        mp  == (5 * doy + 2) \div 153
        d   == doy - (153 * mp + 2) \div 5 + 1
        m   == IF mp < 10 THEN mp + 3 ELSE mp - 9
        y   == yoe + era * 400 + (IF m <= 2 THEN 1 ELSE 0)
    IN  [year |-> y, month |-> m, day |-> d]

\* NaiveDate + chrono::Duration::days(n)
PlusDays(date, n) == date + n

\* NaiveDate::MAX of chrono 0.4: 262142-12-31
MaxNaiveDate == DaysFromCivil(262142, 12, 31)

\* `date + Duration::days(n)` panics ("`NaiveDate + TimeDelta` overflowed")
\* when the sum is past NaiveDate::MAX
AddOverflows(date, n) == date + n > MaxNaiveDate

\* (a - b).num_days()
NumDays(a, b) == a - b

\* date.weekday().num_days_from_monday(); 1970-01-01 was a Thursday
num_days_from_monday(date) == (date + 3) % 7

Abs(n) == IF n < 0 THEN -n ELSE n

RECURSIVE NatToStr(_)
NatToStr(n) ==
    IF n < 10 THEN CharAt(DigitChars, n + 1)
    ELSE NatToStr(n \div 10) \o CharAt(DigitChars, (n % 10) + 1)

RECURSIVE PadZero(_, _)
\* format!("{:0w}", n) for n >= 0
PadZero(s, w) == IF Len(s) >= w THEN s ELSE PadZero("0" \o s, w)

\* format!("{:0w}", n) for a signed n: the sign counts in the width
PadInt(n, w) ==
    IF n < 0 THEN "-" \o PadZero(NatToStr(-n), w - 1) ELSE PadZero(NatToStr(n), w)

format_date(date) ==
    LET c == CivilFromDays(date)
    IN  PadInt(c.year, 4) \o "-" \o PadZero(NatToStr(c.month), 2)
        \o "-" \o PadZero(NatToStr(c.day), 2)

\* format!("{}-{period}", format_date(date))
KeyOf(date, period) == format_date(date) \o "-" \o period

\* str::split(|c| c == '-' || c == '/'): the parts between the separators,
\* empty parts included
RECURSIVE SplitFrom(_, _, _, _)
SplitFrom(s, seps, i, cur) ==
    IF i > Len(s) THEN <<cur>>
    ELSE IF CharAt(s, i) \in seps THEN <<cur>> \o SplitFrom(s, seps, i + 1, "")
    ELSE SplitFrom(s, seps, i + 1, cur \o CharAt(s, i))

\* .filter(|s| !s.is_empty()).collect()
NonEmptyParts(parts) == SelectSeq(parts, LAMBDA part : part # "")

RECURSIVE DigitsValue(_, _)
\* the number written by the digits of s, after acc
DigitsValue(s, acc) ==
    IF s = "" THEN acc
    ELSE DigitsValue(Tail(s), acc * 10 + IndexIn(CharAt(s, 1), DigitChars, 1) - 1)

AllDigits(s) == s # "" /\ \A i \in 1..Len(s) : CharAt(s, i) \in CharsOf(DigitChars)

RECURSIVE StripZeros(_)
StripZeros(s) == IF Len(s) > 1 /\ CharAt(s, 1) = "0" THEN StripZeros(Tail(s)) ELSE s

RECURSIVE DigitsLeq(_, _)
\* a <= b for two digit strings of the same length
DigitsLeq(a, b) ==
    IF a = "" THEN TRUE
    ELSE LET x == IndexIn(CharAt(a, 1), DigitChars, 1)
             y == IndexIn(CharAt(b, 1), DigitChars, 1)
         IN  IF x # y THEN x < y ELSE DigitsLeq(Tail(a), Tail(b))

\* the number written by digits is at most the number written by limit
AtMost(digits, limit) ==
    LET d == StripZeros(digits)
    IN  Len(d) < Len(limit) \/ (Len(d) = Len(limit) /\ DigitsLeq(d, limit))

MaxU32Digits == "4294967295"
MaxI32Digits == "2147483647"
MinI32Digits == "2147483648"
MaxI32 == 2147483647

\* str::parse::<u32>().ok(): an optional '+', then digits; None on overflow.
\* A value above i32::MAX is given as i32::MAX: callers compare it with 12 or
\* with the days of a month only
parse_u32(s) ==
    LET digits == IF starts_with(s, "+") THEN Tail(s) ELSE s
    IN  IF ~AllDigits(digits) \/ ~AtMost(digits, MaxU32Digits) THEN None
        ELSE IF AtMost(digits, MaxI32Digits) THEN Some(DigitsValue(digits, 0))
        ELSE Some(MaxI32)

\* str::parse::<i32>().ok(): an optional sign, then digits; None on overflow
parse_i32(s) ==
    LET neg    == starts_with(s, "-")
        digits == IF neg \/ starts_with(s, "+") THEN Tail(s) ELSE s
    IN  IF ~AllDigits(digits) THEN None
        ELSE IF AtMost(digits, MaxI32Digits)
             THEN Some(IF neg THEN -DigitsValue(digits, 0) ELSE DigitsValue(digits, 0))
        ELSE IF neg /\ AtMost(digits, MinI32Digits) THEN Some(-MaxI32 - 1)
        ELSE None

IsLeapYear(y) == y % 4 = 0 /\ (y % 100 # 0 \/ y % 400 = 0)

DaysInMonth(y, m) ==
    IF m = 2 THEN (IF IsLeapYear(y) THEN 29 ELSE 28)
    ELSE IF m \in {4, 6, 9, 11} THEN 30 ELSE 31

\* NaiveDate::MIN.year() and NaiveDate::MAX.year() of chrono 0.4
MinYear == -262143
MaxYear == 262142

\* NaiveDate::from_ymd_opt
from_ymd_opt(year, month, day) ==
    IF /\ year >= MinYear /\ year <= MaxYear
       /\ month >= 1 /\ month <= 12
       /\ day >= 1 /\ day <= DaysInMonth(year, month)
    THEN Some(DaysFromCivil(year, month, day)) ELSE None

\* parse_date_param with month and day taken in the order day, month
parse_date_param_day_first(input) ==
    LET parts == NonEmptyParts(SplitFrom(input, {"-", "/"}, 1, ""))
    IN  IF Len(parts) # 3 THEN None
        ELSE LET year  == parse_i32(parts[1])
                 month == parse_u32(parts[3])
                 day   == parse_u32(parts[2])
             IN  IF year = None \/ month = None \/ day = None THEN None
                 ELSE from_ymd_opt(year[1], month[1], day[1])

parse_date_param(input) ==
    LET parts == NonEmptyParts(SplitFrom(input, {"-", "/"}, 1, ""))
    IN  IF Len(parts) # 3 THEN None
        ELSE LET year  == parse_i32(parts[1])
                 month == parse_u32(parts[2])
                 day   == parse_u32(parts[3])
             IN  IF year = None \/ month = None \/ day = None THEN None
                 ELSE from_ymd_opt(year[1], month[1], day[1])

(***************************************************************************)
(* HashMap<String, String>                                                 *)
(***************************************************************************)
EmptyMap == <<>>

\* HashMap::insert
Insert(m, k, v) == (k :> v) @@ m

\* HashMap::get(k).cloned()
Get(m, k) == IF k \in DOMAIN m THEN Some(m[k]) ELSE None

(***************************************************************************)
(* Line classifier.                                                        *)
(***************************************************************************)
NoAlphanumeric(trimmed) == \A i \in 1..Len(trimmed) : ~is_alphanumeric(CharAt(trimmed, i))

\* is_junk_line without the all-punctuation rule
is_junk_line_keeps_punctuation(trimmed, lower) ==
    \/ trimmed = ""
    \/ trimmed = "\""
    \/ contains(lower, "cranbrook") \/ contains(lower, "menu")
    \/ contains(lower, "week commencing")

\* lib.rs
is_junk_line(trimmed, lower) ==
    \/ trimmed = ""
    \/ NoAlphanumeric(trimmed)
    \/ trimmed = "\""
    \/ contains(lower, "cranbrook") \/ contains(lower, "menu")
    \/ contains(lower, "week commencing")

\* main.rs
main_is_junk_line(trimmed, lower) ==
    \/ trimmed = ""
    \/ NoAlphanumeric(trimmed)
    \/ trimmed = "\""

\* The callers' idiom: trimmed = raw.trim(); lower = trimmed.to_lowercase();
\* is_junk_line(trimmed, &lower), in the crate c
JunkRaw(c, raw) ==
    LET trimmed == trim(raw)
        lower == to_lowercase(trimmed)
    IN  IF c = "lib" THEN is_junk_line(trimmed, lower)
        ELSE main_is_junk_line(trimmed, lower)

(***************************************************************************)
(* Day-block splitter and positional fallback (same text in both crates,   *)
(* each calling its own is_junk_line).                                     *)
(***************************************************************************)
\* the loop body without the `blocks.len() < expected_blocks` test
SplitBlocksStepUncapped(c, blocks, raw, expected_blocks) ==
    IF JunkRaw(c, raw) THEN blocks
    ELSE LET starts_new == /\ starts_with(raw, " ")
                           /\ Len(blocks) # 0
             b1 == IF starts_new THEN Append(blocks, <<>>) ELSE blocks
             b2 == IF Len(b1) = 0 THEN Append(b1, <<>>) ELSE b1
         IN  [b2 EXCEPT ![Len(b2)] = Append(@, trim(raw))]

\* one iteration of split_blocks' for loop
SplitBlocksStep(c, blocks, raw, expected_blocks) ==
    IF JunkRaw(c, raw) THEN blocks
    ELSE LET starts_new == /\ starts_with(raw, " ")
                           /\ Len(blocks) # 0
                           /\ Len(blocks) < expected_blocks
             b1 == IF starts_new THEN Append(blocks, <<>>) ELSE blocks
             b2 == IF Len(b1) = 0 THEN Append(b1, <<>>) ELSE b1
         IN  [b2 EXCEPT ![Len(b2)] = Append(@, trim(raw))]

\* blocks.last_mut() is None when `raw` is pushed: the unwrap() panics
LastMutIsNone(c, blocks, raw, expected_blocks) ==
    /\ ~JunkRaw(c, raw)
    /\ LET starts_new == /\ starts_with(raw, " ")
                          /\ Len(blocks) # 0
                          /\ Len(blocks) < expected_blocks
            b1 == IF starts_new THEN Append(blocks, <<>>) ELSE blocks
            b2 == IF Len(b1) = 0 THEN Append(b1, <<>>) ELSE b1
       IN  Len(b2) = 0

\* split_blocks panics on some line of ls, started with `blocks`
RECURSIVE SplitBlocksPanicsFrom(_, _, _, _)
SplitBlocksPanicsFrom(c, blocks, ls, expected_blocks) ==
    /\ Len(ls) # 0
    /\ \/ LastMutIsNone(c, blocks, Head(ls), expected_blocks)
       \/ SplitBlocksPanicsFrom(c, SplitBlocksStep(c, blocks, Head(ls), expected_blocks),
                                Tail(ls), expected_blocks)

RECURSIVE SplitBlocksFrom(_, _, _, _)
SplitBlocksFrom(c, blocks, ls, expected_blocks) ==
    IF Len(ls) = 0 THEN blocks
    ELSE SplitBlocksFrom(c, SplitBlocksStep(c, blocks, Head(ls), expected_blocks),
                         Tail(ls), expected_blocks)

split_blocks(c, ls, expected_blocks) == SplitBlocksFrom(c, <<>>, ls, expected_blocks)

\* the inner `for day in 0..days` without its break: the line goes to every
\* day not yet found
FillStepNoBreak(c, acc, raw, ws, days, period) ==
    IF JunkRaw(c, raw) THEN acc
    ELSE LET unfilled == {d \in 0..(days - 1) : ~acc.found[d]}
             keys == {KeyOf(PlusDays(ws, d), period) : d \in unfilled}
         IN  [found |-> [d \in 0..(days - 1) |-> TRUE], panicked |-> FALSE,
              out |-> [k \in DOMAIN acc.out \cup keys |->
                          IF k \in keys THEN trim(raw) ELSE acc.out[k]]]

\* one iteration of fill_first_line_per_day's outer for loop
FillStep(c, acc, raw, ws, days, period) ==
    IF acc.panicked \/ JunkRaw(c, raw) THEN acc
    ELSE LET unfilled == {d \in 0..(days - 1) : ~acc.found[d]}
         IN  IF unfilled = {} THEN acc
             ELSE LET day == CHOOSE d \in unfilled : \A e \in unfilled : d <= e
                  IN  IF AddOverflows(ws, day) THEN [acc EXCEPT !.panicked = TRUE]
                      ELSE [found |-> [acc.found EXCEPT ![day] = TRUE], panicked |-> FALSE,
                            out |-> Insert(acc.out, KeyOf(PlusDays(ws, day), period),
                                           trim(raw))]

RECURSIVE FillFrom(_, _, _, _, _, _)
FillFrom(c, acc, ls, ws, days, period) ==
    IF Len(ls) = 0 THEN acc
    ELSE FillFrom(c, FillStep(c, acc, Head(ls), ws, days, period), Tail(ls), ws, days, period)

\* returns the out map after the call
fill_first_line_per_day(c, ls, ws, days, period, out) ==
    FillFrom(c, [found |-> [d \in 0..(days - 1) |-> FALSE], panicked |-> FALSE, out |-> out],
             ls, ws, days, period).out

\* the call panics on a date overflow
FillPanics(c, ls, ws, days, period) ==
    FillFrom(c, [found |-> [d \in 0..(days - 1) |-> FALSE], panicked |-> FALSE,
                 out |-> EmptyMap],
             ls, ws, days, period).panicked

(***************************************************************************)
(* parse_weekly_menu (same text in both crates).                           *)
(***************************************************************************)
BreakfastDays == 5
LunchDays == 5
DinnerDays == 7
SaturdayOffset == 5
SundayOffset == 6
BrunchText == "Brunch buffet available"

\* the locals of parse_weekly_menu before the loop
ParseInit ==
    [in_breakfast |-> FALSE, in_brunch_sat |-> FALSE, in_brunch_sun |-> FALSE,
     in_lunch |-> FALSE, in_dinner |-> FALSE,
     breakfast_found |-> [d \in 0..(BreakfastDays - 1) |-> FALSE],
     brunch_sat_found |-> FALSE, brunch_sun_found |-> FALSE,
     lunch_lines |-> <<>>, dinner_lines |-> <<>>,
     out |-> EmptyMap,
     panicked |-> FALSE]   \* the call has unwound with a panic

\* a header rule that sets its flag and leaves the others as they are
SetFlagKeepOthers(s, f) ==
    [s EXCEPT !.in_breakfast = (@ \/ f = "breakfast"), !.in_brunch_sat = (@ \/ f = "brunch_sat"),
              !.in_brunch_sun = (@ \/ f = "brunch_sun"), !.in_lunch = (@ \/ f = "lunch"),
              !.in_dinner = (@ \/ f = "dinner")]

\* the flags set by a header rule that clears all the others
OnlyFlag(s, f) ==
    [s EXCEPT !.in_breakfast = (f = "breakfast"), !.in_brunch_sat = (f = "brunch_sat"),
              !.in_brunch_sun = (f = "brunch_sun"), !.in_lunch = (f = "lunch"),
              !.in_dinner = (f = "dinner")]

\* the inline handling with breakfast_found[day] never set
InlineEntryFoundNotSet(s, trimmed, ws) ==
    IF s.in_breakfast
    THEN LET unfilled == {d \in 0..(BreakfastDays - 1) : ~s.breakfast_found[d]}
         IN  IF unfilled = {} THEN s
             ELSE LET day == CHOOSE d \in unfilled : \A e \in unfilled : d <= e
                  IN  IF AddOverflows(ws, day) THEN [s EXCEPT !.panicked = TRUE]
                      ELSE [s EXCEPT !.out = Insert(@, KeyOf(PlusDays(ws, day), "breakfast"),
                                                    trimmed)]
    ELSE IF s.in_brunch_sat /\ ~s.brunch_sat_found
    THEN IF AddOverflows(ws, SaturdayOffset) THEN [s EXCEPT !.panicked = TRUE]
         ELSE [s EXCEPT !.out = Insert(@, KeyOf(PlusDays(ws, SaturdayOffset), "brunch"),
                                       BrunchText),
                        !.brunch_sat_found = TRUE]
    ELSE IF s.in_brunch_sun /\ ~s.brunch_sun_found
    THEN IF AddOverflows(ws, SundayOffset) THEN [s EXCEPT !.panicked = TRUE]
         ELSE [s EXCEPT !.out = Insert(@, KeyOf(PlusDays(ws, SundayOffset), "brunch"),
                                       BrunchText),
                        !.brunch_sun_found = TRUE]
    ELSE s

\* the inline handling with the line's own text as the brunch entry
InlineEntryBrunchLineText(s, trimmed, ws) ==
    IF s.in_breakfast
    THEN LET unfilled == {d \in 0..(BreakfastDays - 1) : ~s.breakfast_found[d]}
         IN  IF unfilled = {} THEN s
             ELSE LET day == CHOOSE d \in unfilled : \A e \in unfilled : d <= e
                  IN  IF AddOverflows(ws, day) THEN [s EXCEPT !.panicked = TRUE]
                      ELSE [s EXCEPT !.out = Insert(@, KeyOf(PlusDays(ws, day), "breakfast"),
                                                    trimmed),
                                     !.breakfast_found[day] = TRUE]
    ELSE IF s.in_brunch_sat /\ ~s.brunch_sat_found
    THEN IF AddOverflows(ws, SaturdayOffset) THEN [s EXCEPT !.panicked = TRUE]
         ELSE [s EXCEPT !.out = Insert(@, KeyOf(PlusDays(ws, SaturdayOffset), "brunch"),
                                       trimmed),
                        !.brunch_sat_found = TRUE]
    ELSE IF s.in_brunch_sun /\ ~s.brunch_sun_found
    THEN IF AddOverflows(ws, SundayOffset) THEN [s EXCEPT !.panicked = TRUE]
         ELSE [s EXCEPT !.out = Insert(@, KeyOf(PlusDays(ws, SundayOffset), "brunch"),
                                       trimmed),
                        !.brunch_sun_found = TRUE]
    ELSE s

\* "Extract first meal for each day in current section"
InlineEntry(s, trimmed, ws) ==
    IF s.in_breakfast
    THEN LET unfilled == {d \in 0..(BreakfastDays - 1) : ~s.breakfast_found[d]}
         IN  IF unfilled = {} THEN s
             ELSE LET day == CHOOSE d \in unfilled : \A e \in unfilled : d <= e
                  IN  IF AddOverflows(ws, day) THEN [s EXCEPT !.panicked = TRUE]
                      ELSE [s EXCEPT !.out = Insert(@, KeyOf(PlusDays(ws, day), "breakfast"),
                                                    trimmed),
                                     !.breakfast_found[day] = TRUE]
    ELSE IF s.in_brunch_sat /\ ~s.brunch_sat_found
    THEN IF AddOverflows(ws, SaturdayOffset) THEN [s EXCEPT !.panicked = TRUE]
         ELSE [s EXCEPT !.out = Insert(@, KeyOf(PlusDays(ws, SaturdayOffset), "brunch"),
                                       BrunchText),
                        !.brunch_sat_found = TRUE]
    ELSE IF s.in_brunch_sun /\ ~s.brunch_sun_found
    THEN IF AddOverflows(ws, SundayOffset) THEN [s EXCEPT !.panicked = TRUE]
         ELSE [s EXCEPT !.out = Insert(@, KeyOf(PlusDays(ws, SundayOffset), "brunch"),
                                       BrunchText),
                        !.brunch_sun_found = TRUE]
    ELSE s

\* the loop body with the lunch rule tried before the brunch rules
ParseLineLunchFirst(c, s, line, ws) ==
    LET trimmed == trim(line)
        lower == to_lowercase(trimmed)
        breakfast_count == matches_count(lower, "breakfast")
        brunch_count == matches_count(lower, "brunch")
        lunch_count == matches_count(lower, "lunch")
        dinner_count == matches_count(lower, "dinner")
    IN  IF breakfast_count >= 3 THEN OnlyFlag(s, "breakfast")
        ELSE IF lunch_count >= 3 THEN OnlyFlag(s, "lunch")
        ELSE IF brunch_count >= 1 /\ ~s.in_brunch_sat THEN OnlyFlag(s, "brunch_sat")
        ELSE IF brunch_count >= 1 /\ s.in_brunch_sat
             THEN [s EXCEPT !.in_brunch_sat = FALSE, !.in_brunch_sun = TRUE]
        ELSE IF dinner_count >= 3 THEN OnlyFlag(s, "dinner")
        ELSE LET s1 == IF s.in_lunch THEN [s EXCEPT !.lunch_lines = Append(@, line)]
                       ELSE IF s.in_dinner THEN [s EXCEPT !.dinner_lines = Append(@, line)]
                       ELSE s
             IN  IF JunkRaw(c, line) THEN s1 ELSE InlineEntry(s1, trimmed, ws)

\* the loop body with the junk test before the buffering
ParseLineJunkNotBuffered(c, s, line, ws) ==
    LET trimmed == trim(line)
        lower == to_lowercase(trimmed)
        breakfast_count == matches_count(lower, "breakfast")
        brunch_count == matches_count(lower, "brunch")
        lunch_count == matches_count(lower, "lunch")
        dinner_count == matches_count(lower, "dinner")
    IN  IF breakfast_count >= 3 THEN OnlyFlag(s, "breakfast")
        ELSE IF brunch_count >= 1 /\ ~s.in_brunch_sat THEN OnlyFlag(s, "brunch_sat")
        ELSE IF brunch_count >= 1 /\ s.in_brunch_sat
             THEN [s EXCEPT !.in_brunch_sat = FALSE, !.in_brunch_sun = TRUE]
        ELSE IF lunch_count >= 3 THEN OnlyFlag(s, "lunch")
        ELSE IF dinner_count >= 3 THEN OnlyFlag(s, "dinner")
        ELSE IF JunkRaw(c, line) THEN s
        ELSE LET s1 == IF s.in_lunch THEN [s EXCEPT !.lunch_lines = Append(@, line)]
                       ELSE IF s.in_dinner THEN [s EXCEPT !.dinner_lines = Append(@, line)]
                       ELSE s
             IN  InlineEntry(s1, trimmed, ws)

\* one iteration of the `for line in lines` loop
ParseLine(c, s, line, ws) ==
    LET trimmed == trim(line)
        lower == to_lowercase(trimmed)
        breakfast_count == matches_count(lower, "breakfast")
        brunch_count == matches_count(lower, "brunch")
        lunch_count == matches_count(lower, "lunch")
        dinner_count == matches_count(lower, "dinner")
    IN  IF breakfast_count >= 3 THEN OnlyFlag(s, "breakfast")
        ELSE IF brunch_count >= 1 /\ ~s.in_brunch_sat THEN OnlyFlag(s, "brunch_sat")
        ELSE IF brunch_count >= 1 /\ s.in_brunch_sat
             THEN [s EXCEPT !.in_brunch_sat = FALSE, !.in_brunch_sun = TRUE]
        ELSE IF lunch_count >= 3 THEN OnlyFlag(s, "lunch")
        ELSE IF dinner_count >= 3 THEN OnlyFlag(s, "dinner")
        ELSE LET s1 == IF s.in_lunch THEN [s EXCEPT !.lunch_lines = Append(@, line)]
                       ELSE IF s.in_dinner THEN [s EXCEPT !.dinner_lines = Append(@, line)]
                       ELSE s
             IN  IF JunkRaw(c, line) THEN s1 ELSE InlineEntry(s1, trimmed, ws)

\* `for (day, block) in blocks.iter().enumerate()`, from block `day` on
RECURSIVE InsertBlocksFrom(_, _, _, _, _)
InsertBlocksFrom(out, blocks, day, ws, period) ==
    IF day >= Len(blocks) THEN out
    ELSE InsertBlocksFrom(Insert(out, KeyOf(PlusDays(ws, day), period),
                                 join(blocks[day + 1], "\n")),
                          blocks, day + 1, ws, period)

\* the section written from its blocks whatever their number
SectionOutputBlocksOnly(c, out, buffer, ws, days, period) ==
    InsertBlocksFrom(out, split_blocks(c, buffer, days), 0, ws, period)

\* blocks -> out, or the positional fallback, for one buffered section
SectionOutput(c, out, buffer, ws, days, period) ==
    LET blocks == split_blocks(c, buffer, days)
    IN  IF Len(blocks) = days
        THEN InsertBlocksFrom(out, blocks, 0, ws, period)
        ELSE fill_first_line_per_day(c, buffer, ws, days, period, out)

\* writing one buffered section panics: the unwrap in split_blocks, or a
\* date past NaiveDate::MAX on the block path or in the fallback
SectionPanics(c, buffer, ws, days, period) ==
    \/ SplitBlocksPanicsFrom(c, <<>>, buffer, days)
    \/ IF Len(split_blocks(c, buffer, days)) = days
       THEN days > 0 /\ AddOverflows(ws, days - 1)
       ELSE FillPanics(c, buffer, ws, days, period)

\* the lunch section written for the seven dinner days
LunchOutputSevenDays(c, s, ws) ==
    IF SectionPanics(c, s.lunch_lines, ws, DinnerDays, "lunch")
    THEN [s EXCEPT !.panicked = TRUE]
    ELSE [s EXCEPT !.out = SectionOutput(c, s.out, s.lunch_lines, ws, DinnerDays, "lunch")]

LunchOutput(c, s, ws) ==
    IF SectionPanics(c, s.lunch_lines, ws, LunchDays, "lunch")
    THEN [s EXCEPT !.panicked = TRUE]
    ELSE [s EXCEPT !.out = SectionOutput(c, s.out, s.lunch_lines, ws, LunchDays, "lunch")]

\* the dinner section written for the five lunch days only
DinnerOutputFiveDays(c, s, ws) ==
    IF SectionPanics(c, s.dinner_lines, ws, LunchDays, "dinner")
    THEN [s EXCEPT !.panicked = TRUE]
    ELSE [s EXCEPT !.out = SectionOutput(c, s.out, s.dinner_lines, ws, LunchDays, "dinner")]

DinnerOutput(c, s, ws) ==
    IF SectionPanics(c, s.dinner_lines, ws, DinnerDays, "dinner")
    THEN [s EXCEPT !.panicked = TRUE]
    ELSE [s EXCEPT !.out = SectionOutput(c, s.out, s.dinner_lines, ws, DinnerDays, "dinner")]

RECURSIVE ParseLinesFrom(_, _, _, _)
ParseLinesFrom(c, s, ls, ws) ==
    IF Len(ls) = 0 \/ s.panicked THEN s
    ELSE ParseLinesFrom(c, ParseLine(c, s, Head(ls), ws), Tail(ls), ws)

\* parse_weekly_menu(text, week_start), text given as its lines
\* (for a week_start at least 6 days before NaiveDate::MAX, where it returns)
parse_weekly_menu(c, ls, ws) ==
    DinnerOutput(c, LunchOutput(c, ParseLinesFrom(c, ParseInit, ls, ws), ws), ws).out

(***************************************************************************)
(* Inputs.                                                                 *)
(***************************************************************************)
Crates == {"lib", "main"}

SeqsUpTo(V, n) == UNION {[1..k -> V] : k \in 0..n}

RECURSIVE StrsUpTo(_, _)
StrsUpTo(A, n) ==
    IF n = 0 THEN {""}
    ELSE LET p == StrsUpTo(A, n - 1) IN p \cup {s \o a : s \in p, a \in A}

\* lines for the functions applied alone: indented with a space, not
\* indented, indented with a tab, punctuation only, filler text
FnLineVocab == {" Soup", "bread", "\tPie", "--", " Menu card"}

\* lines for is_junk_line: every string over a small alphabet, and lines
\* with the filler words of lib.rs
JunkLines ==
    StrsUpTo({" ", "a", "-", "\""}, MaxLineLen)
    \cup {"Lunch menu", "CRANBROOK SCHOOL", " Week Commencing 9 ", "week  commencing",
          "7", "Fish & chips", "\t\"\t", "\t", "MENU", "men u"}

Monday0 == DaysFromCivil(2026, 2, 9)      \* a Monday
MonthEnd == DaysFromCivil(2026, 2, 27)    \* a Friday; + 2 days is 2026-03-01

FnOut0 == Insert(Insert(EmptyMap, "2026-02-09-lunch", "old"), "2026-02-09-breakfast", "Toast")

ParseIdle == week_start = Unused /\ lines = Unused /\ pos = Unused /\ st = Unused /\ pc = Unused
FnIdle == /\ fn_lines = Unused /\ fn_n = Unused /\ fn_ws = Unused /\ fn_call = Unused
          /\ fn_blocks = Unused /\ fn_out = Unused /\ fn_line = Unused /\ fn_junk = Unused
          /\ fn_date = Unused /\ fn_text = Unused /\ fn_parsed = Unused
WeekIdle == /\ week_starts = Unused /\ requested_date = Unused /\ today = Unused
            /\ chosen = Unused /\ wk_pc = Unused
QueryIdle == /\ links = Unused /\ index = Unused /\ b_pos = Unused /\ b_pc = Unused
             /\ q_date = Unused /\ q_period = Unused
             /\ q_today = Unused /\ lib_done = Unused /\ main_done = Unused
             /\ q_resolved = Unused /\ q_via = Unused
             /\ q_mapped_date = Unused /\ answer_lib = Unused /\ answer_main = Unused
             /\ srv_pc = Unused /\ shared_index = Unused /\ lock = Unused /\ reqs = Unused

(***************************************************************************)
(* SpecJunk: is_junk_line applied to one line.                             *)
(***************************************************************************)
InitJunk ==
    /\ crate \in Crates
    /\ fn_line \in JunkLines
    /\ fn_call = "none" /\ fn_junk = Unused
    /\ fn_lines = Unused /\ fn_n = Unused /\ fn_ws = Unused /\ fn_blocks = Unused /\ fn_out = Unused
    /\ fn_date = Unused /\ fn_text = Unused /\ fn_parsed = Unused
    /\ ParseIdle /\ WeekIdle /\ QueryIdle

CallIsJunkLine ==
    /\ fn_call = "none"
    /\ fn_junk' = JunkRaw(crate, fn_line)
    /\ fn_call' = "is_junk_line"
    /\ UNCHANGED <<crate, fn_lines, fn_n, fn_ws, fn_blocks, fn_out, fn_line, textVars>>
    /\ UNCHANGED <<parseVars, weekVars, queryVars>>

NextJunk == CallIsJunkLine

SpecJunk == InitJunk /\ [][NextJunk]_vars

(***************************************************************************)
(* SpecFn: split_blocks and fill_first_line_per_day applied to a list of   *)
(* lines.                                                                  *)
(***************************************************************************)
InitFn ==
    /\ crate \in Crates
    /\ fn_lines \in SeqsUpTo(FnLineVocab, MaxFnLines)
    /\ fn_call = "none" /\ fn_n = 0 /\ fn_ws = Monday0
    /\ fn_blocks = <<>> /\ fn_out = FnOut0
    /\ fn_line = Unused /\ fn_junk = Unused
    /\ fn_date = Unused /\ fn_text = Unused /\ fn_parsed = Unused
    /\ ParseIdle /\ WeekIdle /\ QueryIdle

CallSplitBlocks ==
    /\ fn_call = "none"
    /\ \E n \in 0..MaxDays :
          /\ fn_n' = n
          /\ fn_blocks' = split_blocks(crate, fn_lines, n)
    /\ fn_call' = "split_blocks"
    /\ UNCHANGED <<crate, fn_lines, fn_ws, fn_out, fn_line, fn_junk, textVars>>
    /\ UNCHANGED <<parseVars, weekVars, queryVars>>

CallFillFirstLinePerDay ==
    /\ fn_call = "none"
    /\ \E n \in 0..MaxDays, ws \in {Monday0, MonthEnd} :
          /\ fn_n' = n
          /\ fn_ws' = ws
          /\ fn_out' = fill_first_line_per_day(crate, fn_lines, ws, n, "lunch", fn_out)
    /\ fn_call' = "fill_first_line_per_day"
    /\ UNCHANGED <<crate, fn_lines, fn_blocks, fn_line, fn_junk, textVars>>
    /\ UNCHANGED <<parseVars, weekVars, queryVars>>

NextFn == CallSplitBlocks \/ CallFillFirstLinePerDay

SpecFn == InitFn /\ [][NextFn]_vars

(***************************************************************************)
(* The week-commencing matchers: the two regular expressions, matched as   *)
(* the regex crate matches them (leftmost match; every repetition is       *)
(* followed by a character outside its class, so each run is maximal).     *)
(***************************************************************************)
\* \w, \s and \d on ASCII
WordChars == AlphanumericChars \cup {"_"}
SpaceChars == {" ", "\t", "\n", "\r"}
DigitSet == CharsOf(DigitChars)

\* the position after the longest run of characters of class from position i
RunEnd(s, i, class) ==
    LET stops == {j \in i..Len(s) : CharAt(s, j) \notin class}
    IN  IF stops = {} THEN Len(s) + 1
        ELSE CHOOSE j \in stops : \A k \in stops : j <= k

\* the literal lit is at position i of s; ci: under the flag (?i)
LitAt(s, i, lit, ci) ==
    /\ i + Len(lit) - 1 <= Len(s)
    /\ LET found == SubSeq(s, i, i + Len(lit) - 1)
       IN  IF ci THEN to_lowercase(found) = lit ELSE found = lit

\* w/c at position i: the position after it, 0 for no match
WcEnd(s, i, ci) == IF LitAt(s, i, "w/c", ci) THEN i + 3 ELSE 0

\* week\s+commencing at position i: the position after it, 0 for no match
WeekCommencingEnd(s, i, ci) ==
    IF ~LitAt(s, i, "week", ci) THEN 0
    ELSE LET a == RunEnd(s, i + 4, SpaceChars)
         IN  IF a > i + 4 /\ LitAt(s, a, "commencing", ci) THEN a + 10 ELSE 0

\* (?:st|nd|rd|th)? at position i: the position after it
SuffixEnd(s, i, ci) ==
    IF \E suf \in {"st", "nd", "rd", "th"} : LitAt(s, i, suf, ci) THEN i + 2 ELSE i

\* \s+\w+\s+(\d+)(?:st|nd|rd|th)?\s+(\w+)\s+(\d{4}) from position h (the
\* position after the head): the three captures, None for no match
TailCaptures(s, h, ci) ==
    LET p1 == RunEnd(s, h, SpaceChars)
        p2 == RunEnd(s, p1, WordChars)
        p3 == RunEnd(s, p2, SpaceChars)
        p4 == RunEnd(s, p3, DigitSet)
        p5 == SuffixEnd(s, p4, ci)
        p6 == RunEnd(s, p5, SpaceChars)
        p7 == RunEnd(s, p6, WordChars)
        p8 == RunEnd(s, p7, SpaceChars)
    IN  IF /\ p1 > h /\ p2 > p1 /\ p3 > p2 /\ p4 > p3 /\ p6 > p5 /\ p7 > p6 /\ p8 > p7
           /\ p8 + 3 <= Len(s)
           /\ \A k \in p8..(p8 + 3) : CharAt(s, k) \in DigitSet
        THEN Some([day |-> SubSeq(s, p3, p4 - 1), month_str |-> SubSeq(s, p6, p7 - 1),
                   year |-> SubSeq(s, p8, p8 + 3)])
        ELSE None

\* the captures of the match that starts at position i; week_form: the
\* pattern has the alternative week\s+commencing
CapturesAt(s, i, week_form, ci) ==
    LET wk == IF week_form THEN WeekCommencingEnd(s, i, ci) ELSE 0
        h  == IF wk # 0 THEN wk ELSE WcEnd(s, i, ci)
    IN  IF h = 0 THEN None ELSE TailCaptures(s, h, ci)

\* re.captures(text): the captures of the leftmost match
captures(s, week_form, ci) ==
    LET starts == {i \in 1..Len(s) : CapturesAt(s, i, week_form, ci) # None}
    IN  IF starts = {} THEN None
        ELSE CapturesAt(s, CHOOSE i \in starts : \A k \in starts : i <= k, week_form, ci)

MonthNames == <<"january", "february", "march", "april", "may", "june", "july",
                "august", "september", "october", "november", "december">>

\* the place of a lower-case month name in the year, 0 for any other word
MonthIndex(word) ==
    IF \E k \in 1..12 : MonthNames[k] = word
    THEN CHOOSE k \in 1..12 : MonthNames[k] = word ELSE 0

\* the value of the matched arm: main.rs has the literals 1..12; lib.rs has
\* `Month::January as u32` .. `Month::December as u32`, and chrono's Month
\* enum is zero-indexed (January = 0 .. December = 11)
month_of(c, word) == IF c = "lib" THEN MonthIndex(word) - 1 ELSE MonthIndex(word)

\* the statements after re.captures: day, month and year to a date
DateOfCaptures(c, caps) ==
    IF caps = None THEN None
    ELSE LET day   == parse_u32(caps[1].day)
             year  == parse_i32(caps[1].year)
             word  == to_lowercase(caps[1].month_str)
         IN  IF day = None \/ year = None \/ MonthIndex(word) = 0 THEN None
             ELSE from_ymd_opt(year[1], month_of(c, word), day[1])

parse_week_commencing(c, text) == DateOfCaptures(c, captures(text, FALSE, FALSE))

parse_week_commencing_from_pdf_text(c, text) == DateOfCaptures(c, captures(text, TRUE, TRUE))

(***************************************************************************)
(* SpecDate: a date is formatted, the string is sent with '-' or '/' as    *)
(* each separator, and parse_date_param reads it.                          *)
(***************************************************************************)
\* the dates tried: the days around a leap day, a year boundary, the first and
\* the last four-digit years, the year 0 and an ordinary day
DateAnchors == {DaysFromCivil(2024, 2, 29), DaysFromCivil(2026, 1, 1),
                DaysFromCivil(0, 1, 1), DaysFromCivil(1000, 1, 1),
                DaysFromCivil(10000, 1, 1), DaysFromCivil(100, 3, 1),
                DaysFromCivil(-100, 3, 1), Monday0}

DateChoices == {a + k : a \in DateAnchors, k \in (-MaxDateOffset)..MaxDateOffset}

ReplaceAt(s, i, c) == SubSeq(s, 1, i - 1) \o c \o SubSeq(s, i + 1, Len(s))

\* iso with '/' as the separator before the month and/or before the day
WithSeparators(iso, month_slash, day_slash) ==
    LET a == IF month_slash THEN ReplaceAt(iso, Len(iso) - 5, "/") ELSE iso
    IN  IF day_slash THEN ReplaceAt(a, Len(a) - 2, "/") ELSE a

InitDate ==
    /\ crate \in Crates
    /\ fn_date \in DateChoices
    /\ fn_call = "none" /\ fn_text = "" /\ fn_parsed = None
    /\ fn_lines = Unused /\ fn_n = Unused /\ fn_ws = Unused /\ fn_blocks = Unused
    /\ fn_out = Unused /\ fn_line = Unused /\ fn_junk = Unused
    /\ ParseIdle /\ WeekIdle /\ QueryIdle

CallFormatDate ==
    /\ fn_call = "none"
    /\ \E month_slash \in BOOLEAN, day_slash \in BOOLEAN :
          fn_text' = WithSeparators(format_date(fn_date), month_slash, day_slash)
    /\ fn_call' = "format_date"
    /\ UNCHANGED <<crate, fn_lines, fn_n, fn_ws, fn_blocks, fn_out, fn_line, fn_junk,
                   fn_date, fn_parsed>>
    /\ UNCHANGED <<parseVars, weekVars, queryVars>>

CallParseDateParam ==
    /\ fn_call = "format_date"
    /\ fn_parsed' = parse_date_param(fn_text)
    /\ fn_call' = "parse_date_param"
    /\ UNCHANGED <<crate, fn_lines, fn_n, fn_ws, fn_blocks, fn_out, fn_line, fn_junk,
                   fn_date, fn_text>>
    /\ UNCHANGED <<parseVars, weekVars, queryVars>>

NextDate == CallFormatDate \/ CallParseDateParam

SpecDate == InitDate /\ [][NextDate]_vars

(***************************************************************************)
(* SpecMatch: a week phrase written for a date is handed to the matchers.  *)
(***************************************************************************)
PhrasePrefixes == {"", "Menu for "}
PhraseForms == {"w/c", "W/C", "Week Commencing", "week commencing", "WEEK  COMMENCING"}
PhraseDays == {[word |-> "26th", day |-> 26], [word |-> "2", day |-> 2],
               [word |-> "31", day |-> 31], [word |-> "29th", day |-> 29],
               [word |-> "1st", day |-> 1]}
\* month 0: not a full English month name
PhraseMonths == {[word |-> "January", month |-> 1], [word |-> "February", month |-> 2],
                 [word |-> "APRIL", month |-> 4], [word |-> "december", month |-> 12],
                 [word |-> "Feb", month |-> 0], [word |-> "Sept", month |-> 0]}
PhraseYears == {[word |-> "2026", year |-> 2026], [word |-> "2024", year |-> 2024]}

\* the date a phrase names, None when its month is not a full month name or
\* the day is not a day of that month
NamedDate(d, m, y) ==
    IF m.month # 0 /\ d.day >= 1 /\ d.day <= DaysInMonth(y.year, m.month)
    THEN Some(DaysFromCivil(y.year, m.month, d.day)) ELSE None

InitMatch ==
    /\ crate \in Crates
    /\ \E pre \in PhrasePrefixes, form \in PhraseForms, d \in PhraseDays,
          m \in PhraseMonths, y \in PhraseYears :
          /\ fn_text = pre \o form \o " Monday " \o d.word \o " " \o m.word \o " " \o y.word
          /\ fn_date = NamedDate(d, m, y)
    /\ fn_call = "none" /\ fn_parsed = None
    /\ fn_lines = Unused /\ fn_n = Unused /\ fn_ws = Unused /\ fn_blocks = Unused
    /\ fn_out = Unused /\ fn_line = Unused /\ fn_junk = Unused
    /\ ParseIdle /\ WeekIdle /\ QueryIdle

\* the anchor text of a link (lib.rs:85, main.rs:85 of fetch_menu_links)
CallParseWeekCommencing ==
    /\ fn_call = "none"
    /\ fn_parsed' = parse_week_commencing(crate, fn_text)
    /\ fn_call' = "parse_week_commencing"
    /\ UNCHANGED <<crate, fn_lines, fn_n, fn_ws, fn_blocks, fn_out, fn_line, fn_junk,
                   fn_date, fn_text>>
    /\ UNCHANGED <<parseVars, weekVars, queryVars>>

\* the PDF text of a link whose anchor text gave no date (lib.rs only)
CallParseWeekCommencingFromPdfText ==
    /\ fn_call = "none"
    /\ crate = "lib"
    /\ fn_parsed' = parse_week_commencing_from_pdf_text(crate, fn_text)
    /\ fn_call' = "parse_week_commencing_from_pdf_text"
    /\ UNCHANGED <<crate, fn_lines, fn_n, fn_ws, fn_blocks, fn_out, fn_line, fn_junk,
                   fn_date, fn_text>>
    /\ UNCHANGED <<parseVars, weekVars, queryVars>>

NextMatch == CallParseWeekCommencing \/ CallParseWeekCommencingFromPdfText

SpecMatch == InitMatch /\ [][NextMatch]_vars

(***************************************************************************)
(* C8 (as stated): is_junk_line is true exactly when the trimmed line is   *)
(* empty, has no alphanumeric character, or is a single double quote; any  *)
(* line with an alphanumeric character is content.  Stated for both        *)
(* copies of is_junk_line.                                                 *)
(***************************************************************************)
ThreeRuleJunk(raw) ==
    LET t == trim(raw)
    IN  \/ Len(t) = 0
        \/ CharsOf(t) \cap AlphanumericChars = {}
        \/ t = "\""

FillerWords == {"cranbrook", "menu", "week commencing"}

HasFillerWord(raw) == \E w \in FillerWords : contains(to_lowercase(trim(raw)), w)

HasLeadingWhitespace(raw) == Len(raw) > 0 /\ is_whitespace(CharAt(raw, 1))

\* the lines of ls from index i on that belong to group g, where cur is the
\* group of line i - 1
RECURSIVE GroupLines(_, _, _, _)
GroupLines(ls, i, cur, g) ==
    IF i > Len(ls) THEN <<>>
    ELSE LET mine == IF HasLeadingWhitespace(ls[i]) THEN cur + 1 ELSE cur
         IN  (IF mine = g THEN <<trim(ls[i])>> ELSE <<>>) \o GroupLines(ls, i + 1, mine, g)

WellFormedGroups(c, ls, n) ==
    /\ n >= 1
    /\ Len(ls) >= 1
    /\ \A i \in 1..Len(ls) : ~JunkRaw(c, ls[i])
    /\ HasLeadingWhitespace(ls[1])
    /\ Cardinality({i \in 1..Len(ls) : HasLeadingWhitespace(ls[i])}) = n

C9_WellFormedSplit ==
    (fn_call = "split_blocks" /\ WellFormedGroups(crate, fn_lines, fn_n)) =>
        /\ Len(fn_blocks) = fn_n
        /\ \A g \in 1..fn_n : fn_blocks[g] = GroupLines(fn_lines, 1, 0, g)

\* the same with groups opened by a space character only
C9_SpaceIndentedSplit ==
    ( /\ fn_call = "split_blocks" /\ WellFormedGroups(crate, fn_lines, fn_n)
      /\ \A i \in 1..Len(fn_lines) :
            HasLeadingWhitespace(fn_lines[i]) => starts_with(fn_lines[i], " ") ) =>
        /\ Len(fn_blocks) = fn_n
        /\ \A g \in 1..fn_n : fn_blocks[g] = GroupLines(fn_lines, 1, 0, g)

(***************************************************************************)
(* C10: after fill_first_line_per_day(lines, week_start, days, period,     *)
(* out), for k = 1..min(days, number of non-junk lines) the key of day     *)
(* k - 1 holds the trimmed k-th non-junk line, no other key was written,   *)
(* and so no day holds two lines, no line serves two days and at most      *)
(* `days` assignments were made.                                           *)
(***************************************************************************)
NonJunkIdx(c, ls) == {i \in 1..Len(ls) : ~JunkRaw(c, ls[i])}

\* index of the k-th non-junk line
KthNonJunk(c, ls, k) ==
    CHOOSE i \in NonJunkIdx(c, ls) : Cardinality({j \in NonJunkIdx(c, ls) : j <= i}) = k

MinOf(a, b) == IF a <= b THEN a ELSE b

C10_FillPositional ==
    fn_call = "fill_first_line_per_day" =>
        LET m == MinOf(fn_n, Cardinality(NonJunkIdx(crate, fn_lines)))
            keyOfDay(d) == KeyOf(fn_ws + d, "lunch")
            written == {keyOfDay(k - 1) : k \in 1..m}
        IN  /\ Cardinality(written) = m
            /\ DOMAIN fn_out = DOMAIN FnOut0 \cup written
            /\ \A k \in 1..m :
                  fn_out[keyOfDay(k - 1)] = trim(fn_lines[KthNonJunk(crate, fn_lines, k)])
            /\ \A key \in DOMAIN FnOut0 \ written : fn_out[key] = FnOut0[key]

\* more non-junk lines than days, a junk line first, two days filled
C10_Witness ==
    /\ fn_call = "fill_first_line_per_day"
    /\ fn_n = 2
    /\ Len(fn_lines) = 4
    /\ JunkRaw(crate, fn_lines[1])
    /\ Cardinality(NonJunkIdx(crate, fn_lines)) = 3
    /\ fn_out[KeyOf(fn_ws + 1, "lunch")] = trim(fn_lines[3])

(***************************************************************************)
(* Spec: parse_weekly_menu run line by line on one document.               *)
(***************************************************************************)
BreakfastHeader == "Breakfast Breakfast Breakfast Breakfast Breakfast"
BrunchHeader == "Brunch"
LunchHeader == "Lunch Lunch Lunch Lunch Lunch"
DinnerHeader == "Dinner Dinner Dinner Dinner Dinner Dinner Dinner"

\* documents of arbitrary short line sequences
DocVocab == {BreakfastHeader, BrunchHeader, LunchHeader, DinnerHeader,
             " Soup", "bread", "--", "Lunch menu",
             "Brunch Lunch Lunch Lunch", "Lunch menu lunch LUNCH"}
ShortDocs == SeqsUpTo(DocVocab, MaxDocLines)

\* a lunch section of up to MaxSection indented and continuation lines
LunchSectionDocs == {<<LunchHeader>> \o body : body \in SeqsUpTo({" Soup", "bread"}, MaxSection)}

\* the end-to-end documents: 5 distinct breakfast lines, two brunch headers
\* (each followed or not by a content line), 5 lunch day-blocks, 7 dinner
\* day-blocks
E2EBreakfast == <<BreakfastHeader, "Porridge", "Eggs", "Toast", "Pancakes", "Yoghurt">>
E2ELunch == <<LunchHeader, " Soup", "bread", " Pasta", " Curry", "rice", " Fish", " Pizza">>
E2EDinner == <<DinnerHeader, " Stew", " Roast", "gravy", " Pie", " Chilli", " Burger",
               " Paella", " Lasagne", "salad">>
E2EDoc(sat, sun) ==
    E2EBreakfast \o <<BrunchHeader>> \o sat \o <<BrunchHeader>> \o sun \o E2ELunch \o E2EDinner
E2EDocs == {E2EDoc(sat, sun) : sat \in {<<>>, <<"Served from 10am">>},
                               sun \in {<<>>, <<"Served from 11am">>}}

\* a line before any header, then a lunch or a dinner section with junk,
\* indented and header-like lines
BufferDocs ==
    {<<first, header>> \o body :
        first \in {"bread", "--"}, header \in {LunchHeader, DinnerHeader},
        body \in [1..2 -> {"--", " Soup", "Lunch menu", BrunchHeader}]}

\* a breakfast section of MaxBreakfastLines lines, left for a lunch section
\* after two of them and entered again
BreakfastLineVocab == {"Eggs", " Toast ", "--"}
BreakfastDocs ==
    {<<BreakfastHeader>> \o SubSeq(b, 1, 2) \o <<LunchHeader, " Soup", BreakfastHeader>>
        \o SubSeq(b, 3, MaxBreakfastLines) : b \in [1..MaxBreakfastLines -> BreakfastLineVocab]}

Init ==
    /\ crate \in Crates
    /\ \/ lines \in ShortDocs /\ week_start \in {Monday0, MonthEnd, MaxNaiveDate}
       \/ lines \in BufferDocs /\ week_start = Monday0
       \/ lines \in LunchSectionDocs \cup E2EDocs \cup BreakfastDocs /\ week_start = Monday0
    /\ pos = 0
    /\ st = ParseInit
    /\ pc = "loop"
    /\ FnIdle /\ WeekIdle /\ QueryIdle

ProcessLine ==
    /\ pc = "loop" /\ ~st.panicked
    /\ pos < Len(lines)
    /\ st' = ParseLine(crate, st, lines[pos + 1], week_start)
    /\ pos' = pos + 1
    /\ UNCHANGED <<crate, week_start, lines, pc, fnVars, weekVars, queryVars>>

WriteLunch ==
    /\ pc = "loop" /\ ~st.panicked
    /\ pos = Len(lines)
    /\ st' = LunchOutput(crate, st, week_start)
    /\ pc' = "dinner"
    /\ UNCHANGED <<crate, week_start, lines, pos, fnVars, weekVars, queryVars>>

WriteDinner ==
    /\ pc = "dinner" /\ ~st.panicked
    /\ st' = DinnerOutput(crate, st, week_start)
    /\ pc' = "done"
    /\ UNCHANGED <<crate, week_start, lines, pos, fnVars, weekVars, queryVars>>

Next == ProcessLine \/ WriteLunch \/ WriteDinner

Spec == Init /\ [][Next]_vars

(***************************************************************************)
(* C1 (as stated): for week_start = 2026-02-09 and a text with 5 distinct  *)
(* breakfast lines, one brunch header then a second brunch header, 5       *)
(* well-formed lunch day-blocks and 7 well-formed dinner day-blocks, the   *)
(* map has exactly the 19 keys 2026-02-09..13-breakfast, 2026-02-14-brunch *)
(* and 2026-02-15-brunch (both "Brunch buffet available"),                 *)
(* 2026-02-09..13-lunch and 2026-02-09..15-dinner.                         *)
(***************************************************************************)
E2EKeys ==
    {"2026-02-09-breakfast", "2026-02-10-breakfast", "2026-02-11-breakfast",
     "2026-02-12-breakfast", "2026-02-13-breakfast",
     "2026-02-14-brunch", "2026-02-15-brunch",
     "2026-02-09-lunch", "2026-02-10-lunch", "2026-02-11-lunch", "2026-02-12-lunch",
     "2026-02-13-lunch",
     "2026-02-09-dinner", "2026-02-10-dinner", "2026-02-11-dinner", "2026-02-12-dinner",
     "2026-02-13-dinner", "2026-02-14-dinner", "2026-02-15-dinner"}

NineteenEntries(out) ==
    /\ DOMAIN out = E2EKeys
    /\ Cardinality(DOMAIN out) = 19
    /\ out["2026-02-14-brunch"] = "Brunch buffet available"
    /\ out["2026-02-15-brunch"] = "Brunch buffet available"

C1_EndToEndAsStated ==
    (pc = "done" /\ week_start = Monday0 /\ lines \in E2EDocs) => NineteenEntries(st.out)

(***************************************************************************)
(* C1 (amended): the same, for a text in which each of the two brunch      *)
(* headers is followed by at least one non-junk line that is not a header. *)
(***************************************************************************)
E2EDocWithBrunchLines == E2EDoc(<<"Served from 10am">>, <<"Served from 11am">>)

C1_EndToEndWithBrunchLines ==
    (pc = "done" /\ week_start = Monday0 /\ lines = E2EDocWithBrunchLines) =>
        NineteenEntries(st.out)

C1_Witness ==
    /\ pc = "done" /\ week_start = Monday0 /\ lines = E2EDocWithBrunchLines
    /\ Cardinality(DOMAIN st.out) = 19
    /\ st.out["2026-02-13-lunch"] = "Pizza"
    /\ st.out["2026-02-10-dinner"] = "Roast\ngravy"

(***************************************************************************)
(* C2 (as stated): whenever the buffered lunch lines form 4 or 6           *)
(* day-groups (a group starts at a non-junk line with leading whitespace)  *)
(* instead of 5, the lunch entries of the result are exactly those of      *)
(* fill_first_line_per_day and each is a single line.                      *)
(***************************************************************************)
DayGroups(c, ls) ==
    LET content == NonJunkIdx(c, ls)
        opening == {i \in content : HasLeadingWhitespace(ls[i])}
        first == {i \in content : \A j \in content : i <= j}
    IN  Cardinality(opening \cup first)

EndsWith(str, suffix) ==
    Len(str) >= Len(suffix) /\ SubSeq(str, Len(str) - Len(suffix) + 1, Len(str)) = suffix

EntriesOf(out, period) == {k \in DOMAIN out : EndsWith(k, "-" \o period)}

IsSingleLine(str) == "\n" \notin CharsOf(str)

LunchFromFallback ==
    LET fb == fill_first_line_per_day(crate, st.lunch_lines, week_start, LunchDays,
                                      "lunch", EmptyMap)
    IN  /\ EntriesOf(st.out, "lunch") = DOMAIN fb
        /\ \A k \in DOMAIN fb : st.out[k] = fb[k] /\ IsSingleLine(st.out[k])

C2_FallbackOnFourOrSixGroups ==
    (pc = "done" /\ DayGroups(crate, st.lunch_lines) \in {4, 6}) => LunchFromFallback

\* the half of C2 that the code satisfies: fewer than 5 groups
C2_FallbackOnFourGroups ==
    (pc = "done" /\ DayGroups(crate, st.lunch_lines) = 4) => LunchFromFallback

(***************************************************************************)
(* C13 (as stated): for every text and every week_start the call never     *)
(* panics, it terminates with a map, and a section whose lines do not form *)
(* as many day-groups as it has days yields single-line entries only.      *)
(***************************************************************************)
SingleLineEntries(out, period) == \A k \in EntriesOf(out, period) : IsSingleLine(out[k])

MalformedYieldsSingleLines ==
    pc = "done" =>
        /\ DayGroups(crate, st.lunch_lines) # LunchDays => SingleLineEntries(st.out, "lunch")
        /\ DayGroups(crate, st.dinner_lines) # DinnerDays => SingleLineEntries(st.out, "dinner")

\* steps left before the call returns: the lines not yet read, then the lunch
\* and the dinner output
StepsLeft == IF pc = "loop" THEN Len(lines) - pos + 2 ELSE IF pc = "dinner" THEN 1 ELSE 0

\* the call has returned or its next step can be taken
ReturnedOrRunning == pc = "done" \/ (~st.panicked /\ pc \in {"loop", "dinner"})

C13_NeverAborts ==
    /\ [](~st.panicked /\ ReturnedOrRunning /\ MalformedYieldsSingleLines)
    /\ [][StepsLeft' < StepsLeft /\ StepsLeft' >= 0]_vars

\* the part of C13 that the code satisfies: for a week_start at least 6 days
\* before NaiveDate::MAX the call does not panic and goes on until it returns
C13_ReturnsInDateRange ==
    /\ []((week_start + SundayOffset <= MaxNaiveDate) => (~st.panicked /\ ReturnedOrRunning))
    /\ [][StepsLeft' < StepsLeft /\ StepsLeft' >= 0]_vars

\* the panic of C13: a date past NaiveDate::MAX
C13_NoPanic == ~st.panicked

C14_RoundTripFromYearZero ==
    (fn_call = "parse_date_param" /\ CivilFromDays(fn_date).year >= 0) =>
        /\ fn_parsed = Some(fn_date)
        /\ format_date(fn_parsed[1]) = format_date(fn_date)

C14_SlashWitness ==
    /\ fn_call = "parse_date_param"
    /\ fn_date = DaysFromCivil(2024, 2, 29)
    /\ fn_text = "2024/02-29"
    /\ fn_parsed = Some(fn_date)

(***************************************************************************)
(* C15: the week-pattern matchers.                                         *)
(***************************************************************************)
\* C15: a matcher used to obtain a document's week-start date yields the
\* date the phrase names ("Menu for w/c Monday 26th January 2026" yields
\* 2026-01-26, "Week Commencing Monday 2 February 2026" yields 2026-02-02),
\* whatever the case of `week commencing` or `w/c`, and yields no match when
\* the day is not a day of the month or the month is not a full English
\* month name.
C15_MatcherYieldsNamedDate == fn_call # "none" => fn_parsed = fn_date

\* the part of C15 that the code satisfies: parse_week_commencing of main.rs
\* on the phrases with a lower-case w/c
C15_MainLowerCaseWc ==
    (fn_call = "parse_week_commencing" /\ crate = "main" /\ contains(fn_text, "w/c"))
        => fn_parsed = fn_date

(***************************************************************************)
(* C16: the section segmenter.                                             *)
(***************************************************************************)
\* the segmenter state the flags stand for
StateOf(s) ==
    IF s.in_breakfast THEN "Breakfast"
    ELSE IF s.in_brunch_sat THEN "BrunchSat"
    ELSE IF s.in_brunch_sun THEN "BrunchSun"
    ELSE IF s.in_lunch THEN "Lunch"
    ELSE IF s.in_dinner THEN "Dinner"
    ELSE "None"

FlagsSet(s) ==
    {f \in {"in_breakfast", "in_brunch_sat", "in_brunch_sun", "in_lunch", "in_dinner"} : s[f]}

\* the number of places of text where word is written
Occurrences(text, word) ==
    Cardinality({i \in 1..(Len(text) - Len(word) + 1) :
                    SubSeq(text, i, i + Len(word) - 1) = word})

\* the state the first rule that fires on line sets, "no rule" if none fires
FiredRule(state, line) ==
    LET lower == to_lowercase(trim(line))
    IN  IF Occurrences(lower, "breakfast") >= 3 THEN "Breakfast"
        ELSE IF Occurrences(lower, "brunch") >= 1 /\ state # "BrunchSat" THEN "BrunchSat"
        ELSE IF Occurrences(lower, "brunch") >= 1 /\ state = "BrunchSat" THEN "BrunchSun"
        ELSE IF Occurrences(lower, "lunch") >= 3 THEN "Lunch"
        ELSE IF Occurrences(lower, "dinner") >= 3 THEN "Dinner"
        ELSE "no rule"

\* C16: for every line, junk or not, the state after the line is the one set
\* by the first rule that fires (breakfast >= 3, brunch >= 1 outside
\* BrunchSat, brunch >= 1 in BrunchSat, lunch >= 3, dinner >= 3) and is
\* unchanged if none fires; a line on which a rule fires is added to no
\* buffer and produces no entry.
C16_SegmenterTransitions ==
    /\ [](Cardinality(FlagsSet(st)) <= 1)
    /\ [][(pc = "loop" /\ pos' = pos + 1) =>
            LET rule == FiredRule(StateOf(st), lines[pos'])
            IN  /\ StateOf(st') = IF rule = "no rule" THEN StateOf(st) ELSE rule
                /\ rule # "no rule" =>
                       /\ st'.lunch_lines = st.lunch_lines
                       /\ st'.dinner_lines = st.dinner_lines
                       /\ st'.out = st.out]_vars

\* a second brunch header that also holds "lunch" three times has moved the
\* state from BrunchSat to BrunchSun, and nothing was buffered or written
C16_Witness ==
    /\ lines = <<BrunchHeader, "Brunch Lunch Lunch Lunch">>
    /\ pos = 2
    /\ StateOf(st) = "BrunchSun"
    /\ st.lunch_lines = <<>> /\ st.out = EmptyMap

\* a line with "lunch" exactly 5 times has moved the state to Lunch and is
\* not in the lunch buffer
C16_LunchHeaderWitness ==
    /\ pos = 2 /\ lines[1] = " Soup" /\ lines[2] = LunchHeader
    /\ StateOf(st) = "Lunch"
    /\ st.lunch_lines = <<>>

(***************************************************************************)
(* C17: the new-block rule of split_blocks.                                *)
(***************************************************************************)
\* the blocks after one more non-junk line, by the rule as claimed
ClaimedBlockStep(blocks, raw, n) ==
    IF HasLeadingWhitespace(raw) /\ Len(blocks) >= 1 /\ Len(blocks) < n
    THEN Append(blocks, <<trim(raw)>>)
    ELSE IF Len(blocks) = 0 THEN <<<<trim(raw)>>>>
    ELSE [blocks EXCEPT ![Len(blocks)] = Append(@, trim(raw))]

RECURSIVE ClaimedBlocks(_, _, _)
ClaimedBlocks(blocks, ls, n) ==
    IF Len(ls) = 0 THEN blocks
    ELSE ClaimedBlocks(ClaimedBlockStep(blocks, Head(ls), n), Tail(ls), n)

\* C17: scanning the non-junk lines, a line opens a new block exactly when it
\* has leading whitespace of any kind in its untrimmed form, a block exists
\* and fewer than expected_block_count blocks exist; every other line is
\* appended to the last block, a first block being created if none exists.
C17_NewBlockOnLeadingWhitespace ==
    fn_call = "split_blocks" =>
        fn_blocks = ClaimedBlocks(<<>>, SelectSeq(fn_lines, LAMBDA raw : ~JunkRaw(crate, raw)),
                                  fn_n)

\* the part of C17 that the code satisfies: the rule on lines without a tab
C17_NewBlockOnLeadingSpace ==
    (fn_call = "split_blocks" /\ \A i \in 1..Len(fn_lines) : ~contains(fn_lines[i], "\t")) =>
        fn_blocks = ClaimedBlocks(<<>>, SelectSeq(fn_lines, LAMBDA raw : ~JunkRaw(crate, raw)),
                                  fn_n)

(***************************************************************************)
(* C18: breakfast lines.                                                   *)
(***************************************************************************)
BreakfastKeys(out) == {k \in DOMAIN out : EndsWith(k, "-breakfast")}

\* the weekdays (Mon = 0 .. Fri = 4) that have a breakfast entry in out
BreakfastFilled(out) ==
    {d \in 0..4 : KeyOf(week_start + d, "breakfast") \in DOMAIN out}

\* the line just read is a non-junk, non-header line read in state
ContentLineIn(state) ==
    /\ StateOf(st) = state
    /\ FiredRule(state, lines[pos']) = "no rule"
    /\ ~JunkRaw(crate, lines[pos'])

\* C18: each non-junk, non-header line processed in state Breakfast fills the
\* lowest weekday (Mon=0..Fri=4) not yet filled with its trimmed text under
\* <week_start+day>-breakfast; a breakfast entry is never overwritten by a
\* later line; at most 5 breakfast entries exist.  (Steps of a call that
\* has not panicked.)
C18_BreakfastFirstLinePerDay ==
    /\ [](Cardinality(BreakfastKeys(st.out)) <= 5)
    /\ [][\A k \in BreakfastKeys(st.out) :
             k \in DOMAIN st'.out /\ st'.out[k] = st.out[k]]_vars
    /\ [][(pc = "loop" /\ pos' = pos + 1 /\ ~st'.panicked) =>
            LET unfilled == (0..4) \ BreakfastFilled(st.out)
            IN  IF ContentLineIn("Breakfast") /\ unfilled # {}
                THEN LET day == CHOOSE d \in unfilled : \A e \in unfilled : d <= e
                     IN  st'.out = Insert(st.out, KeyOf(week_start + day, "breakfast"),
                                          trim(lines[pos']))
                ELSE BreakfastKeys(st'.out) = BreakfastKeys(st.out)]_vars

\* six breakfast lines over two visits of the Breakfast state: the five
\* weekdays hold the first five, the sixth is dropped
C18_Witness ==
    /\ pc = "done"
    /\ lines = <<BreakfastHeader, "Eggs", " Toast ", LunchHeader, " Soup", BreakfastHeader,
                 "Eggs", " Toast ", "Eggs", " Toast ">>
    /\ Cardinality(BreakfastKeys(st.out)) = 5
    /\ st.out["2026-02-10-breakfast"] = "Toast"
    /\ st.out["2026-02-13-breakfast"] = "Eggs"

(***************************************************************************)
(* C19: brunch lines.                                                      *)
(***************************************************************************)
BrunchKeys(out) == {k \in DOMAIN out : EndsWith(k, "-brunch")}

\* C19: <week_start+5>-brunch (resp. <week_start+6>-brunch) exists exactly
\* when a non-junk, non-header line was processed in state BrunchSat (resp.
\* BrunchSun): none exists before the first line, and a step adds the key
\* exactly when it reads such a line; its text is always "Brunch buffet
\* available"; later lines add or change nothing.  (Steps of a call that has
\* not panicked.)
C19_BrunchFixedEntry ==
    /\ [](/\ pos = 0 => BrunchKeys(st.out) = {}
          /\ \A k \in BrunchKeys(st.out) : st.out[k] = "Brunch buffet available")
    /\ [][(pc = "loop" /\ pos' = pos + 1 /\ ~st'.panicked) =>
            BrunchKeys(st'.out) = BrunchKeys(st.out)
                \cup (IF ContentLineIn("BrunchSat")
                      THEN {KeyOf(week_start + 5, "brunch")} ELSE {})
                \cup (IF ContentLineIn("BrunchSun")
                      THEN {KeyOf(week_start + 6, "brunch")} ELSE {})]_vars
    /\ [][pc' # pc => BrunchKeys(st'.out) = BrunchKeys(st.out)]_vars
    /\ [][\A k \in BrunchKeys(st.out) :
             k \in DOMAIN st'.out /\ st'.out[k] = st.out[k]]_vars

\* a line after the first brunch header and none after the second: the
\* Saturday entry exists with the fixed text, the Sunday entry does not
C19_Witness ==
    /\ pc = "done"
    /\ lines = E2EDoc(<<"Served from 10am">>, <<>>)
    /\ st.out["2026-02-14-brunch"] = "Brunch buffet available"
    /\ "2026-02-15-brunch" \notin DOMAIN st.out

(***************************************************************************)
(* C20: lunch and dinner buffering.                                        *)
(***************************************************************************)
\* C20: after any prefix of the input the lunch (resp. dinner) buffer is the
\* sequence, in input order and untrimmed, of the non-header lines processed
\* in state Lunch (resp. Dinner), junk lines included: empty before the first
\* line, and each step appends its line exactly when it is such a line; a
\* line processed in state None adds nothing to a buffer or to the output.
C20_BuffersHoldSectionLines ==
    /\ [](pos = 0 => (st.lunch_lines = <<>> /\ st.dinner_lines = <<>> /\ st.out = EmptyMap))
    /\ [][(pc = "loop" /\ pos' = pos + 1) =>
            LET line == lines[pos']
                content == FiredRule(StateOf(st), line) = "no rule"
            IN  /\ st'.lunch_lines = IF content /\ StateOf(st) = "Lunch"
                                      THEN Append(st.lunch_lines, line) ELSE st.lunch_lines
                /\ st'.dinner_lines = IF content /\ StateOf(st) = "Dinner"
                                       THEN Append(st.dinner_lines, line) ELSE st.dinner_lines
                /\ (content /\ StateOf(st) = "None") => st'.out = st.out]_vars

\* a junk line and an indented line read in state Lunch are both in the
\* lunch buffer, untrimmed, after a line read before any header
C20_Witness ==
    /\ pos = 4
    /\ lines = <<"bread", LunchHeader, "--", " Soup">>
    /\ st.lunch_lines = <<"--", " Soup">>
    /\ st.dinner_lines = <<>> /\ st.out = EmptyMap

(***************************************************************************)
(* C21: the lunch and dinner output.                                       *)
(***************************************************************************)
\* the entries of period in out are the ones claimed for a section buffer of
\* `days` days: one per block when split_blocks gives `days` blocks, else
\* the trimmed k-th non-junk line for day k - 1
ClaimedSection(out, buffer, days, period) ==
    LET blocks == split_blocks(crate, buffer, days)
        m == MinOf(days, Cardinality(NonJunkIdx(crate, buffer)))
    IN  IF Len(blocks) = days
        THEN /\ EntriesOf(out, period) = {KeyOf(week_start + d, period) : d \in 0..(days - 1)}
             /\ \A d \in 0..(days - 1) :
                    out[KeyOf(week_start + d, period)] = join(blocks[d + 1], "\n")
        ELSE /\ EntriesOf(out, period) = {KeyOf(week_start + (k - 1), period) : k \in 1..m}
             /\ \A k \in 1..m :
                    /\ out[KeyOf(week_start + (k - 1), period)]
                          = trim(buffer[KthNonJunk(crate, buffer, k)])
                    /\ IsSingleLine(out[KeyOf(week_start + (k - 1), period)])

\* C21: if split_blocks on the lunch buffer yields exactly 5 blocks (dinner:
\* 7), the result holds <week_start+d>-lunch for d in 0..4 (dinner 0..6)
\* with block d's lines joined by newlines; otherwise the lunch (dinner)
\* entries are exactly those of fill_first_line_per_day, one single line per
\* filled day.  (A call that has not panicked.)
C21_SectionOutput ==
    /\ []((pc = "done" /\ ~st.panicked) =>
            /\ ClaimedSection(st.out, st.lunch_lines, 5, "lunch")
            /\ ClaimedSection(st.out, st.dinner_lines, 7, "dinner"))
    /\ []((pc = "loop" /\ ~st.panicked) =>
            (EntriesOf(st.out, "lunch") = {} /\ EntriesOf(st.out, "dinner") = {}))

\* a lunch section of two groups in three lines: the fallback gave the first
\* three days one line each, the continuation line included
C21_FallbackWitness ==
    /\ pc = "done"
    /\ lines = <<LunchHeader, " Soup", "bread", " Soup">>
    /\ Len(split_blocks(crate, st.lunch_lines, 5)) = 2
    /\ Cardinality(EntriesOf(st.out, "lunch")) = 3
    /\ st.out["2026-02-10-lunch"] = "bread"

\* five lunch blocks and seven dinner blocks, written block by block
C21_Witness ==
    /\ pc = "done"
    /\ lines \in E2EDocs
    /\ Len(split_blocks(crate, st.lunch_lines, 5)) = 5
    /\ Len(split_blocks(crate, st.dinner_lines, 7)) = 7
    /\ st.out["2026-02-09-lunch"] = "Soup\nbread"
    /\ st.out["2026-02-15-dinner"] = "Lasagne\nsalad"

(***************************************************************************)
(* C22: the segmenter state is well-formed.                                *)
(***************************************************************************)
\* C22: after every processed line at most one of the five section flags is
\* true, so the flags encode one state of {None, Breakfast, BrunchSat,
\* BrunchSun, Lunch, Dinner}; the state is None before the first line, and
\* once a header has been seen it is never None again.
C22_OneStateNeverBackToNone ==
    /\ [](/\ Cardinality(FlagsSet(st)) <= 1
          /\ StateOf(st) \in {"None", "Breakfast", "BrunchSat", "BrunchSun", "Lunch", "Dinner"}
          /\ (StateOf(st) = "None") <=> (FlagsSet(st) = {})
          /\ pos = 0 => FlagsSet(st) = {})
    /\ [][FlagsSet(st) # {} => FlagsSet(st') # {}]_vars
    /\ [][(pc = "loop" /\ pos' = pos + 1
            /\ FiredRule(StateOf(st), lines[pos']) # "no rule") => FlagsSet(st') # {}]_vars

\* a lunch header after a breakfast header: in_lunch alone is true
C22_Witness ==
    /\ lines = <<BreakfastHeader, LunchHeader>>
    /\ pos = 2
    /\ FlagsSet(st) = {"in_lunch"}

(***************************************************************************)
(* C23: structure of the blocks of split_blocks.                           *)
(***************************************************************************)
RECURSIVE Flatten(_)
\* the blocks' lines, block after block
Flatten(blocks) == IF Len(blocks) = 0 THEN <<>> ELSE Head(blocks) \o Flatten(Tail(blocks))

\* the trimmed non-junk lines of ls, in their order
TrimmedContent(c, ls) ==
    [k \in 1..Cardinality(NonJunkIdx(c, ls)) |-> trim(ls[KthNonJunk(c, ls, k)])]

\* C23: for expected_blocks >= 1 the number of blocks never exceeds
\* expected_blocks and is 0 exactly when the input has no non-junk line,
\* every block is non-empty, and the blocks concatenated in order are the
\* trimmed non-junk input lines in their original order.
C23_BlocksPartitionContent ==
    (fn_call = "split_blocks" /\ fn_n >= 1) =>
        /\ Len(fn_blocks) <= fn_n
        /\ (Len(fn_blocks) = 0) <=> (NonJunkIdx(crate, fn_lines) = {})
        /\ \A b \in 1..Len(fn_blocks) : Len(fn_blocks[b]) >= 1
        /\ Flatten(fn_blocks) = TrimmedContent(crate, fn_lines)

\* three space-indented lines and one junk line for two expected blocks: the
\* third line went to the second block
C23_Witness ==
    /\ fn_call = "split_blocks" /\ fn_n = 2
    /\ fn_lines = <<" Soup", "--", " Soup", " Soup">>
    /\ fn_blocks = <<<<"Soup">>, <<"Soup", "Soup">>>>

(***************************************************************************)
(* C24: key range of one parsed week.                                      *)
(***************************************************************************)
\* the keys of the period for the day offsets from..to of the week
WeekKeys(period, from, to) == {KeyOf(week_start + d, period) : d \in from..to}

\* C24: every key of the map of parse_weekly_menu(text, week_start) has a
\* date in [week_start, week_start + 6 days] and a period in {breakfast,
\* brunch, lunch, dinner}: breakfast and lunch keys for the day offsets 0..4
\* only, brunch keys for 5 and 6 only, dinner keys for 0..6; so the map
\* never has more than 19 entries.
C24_KeysWithinWeek ==
    /\ DOMAIN st.out \subseteq
          (WeekKeys("breakfast", 0, 4) \cup WeekKeys("lunch", 0, 4)
           \cup WeekKeys("brunch", 5, 6) \cup WeekKeys("dinner", 0, 6))
    /\ Cardinality(DOMAIN st.out) <= 19

\* a week that runs into the next month, with a lunch entry from the
\* fallback on its first day; and the full 19 entries are reached too
C24_Witness ==
    /\ pc = "done"
    /\ week_start = MonthEnd
    /\ lines = <<LunchHeader, " Soup">>
    /\ DOMAIN st.out = {"2026-02-27-lunch"}

C24_FullWeekWitness ==
    /\ pc = "done"
    /\ Cardinality(DOMAIN st.out) = 19
    /\ "2026-02-15-dinner" \in DOMAIN st.out

(***************************************************************************)
(* Week resolver (lib.rs).                                                 *)
(***************************************************************************)
DaysPerWeek == 7
LastDayOffset == 6

\* the containment test with the last day of the week left out
ContainsDateExclusiveEnd(ws, requested) ==
    LET week_end == PlusDays(ws, LastDayOffset)
    IN  requested >= ws /\ requested < week_end

\* requested_date >= *week_start && requested_date <= week_end
ContainsDate(ws, requested) ==
    LET week_end == PlusDays(ws, LastDayOffset)
    IN  requested >= ws /\ requested <= week_end

\* i64 `/`: division truncating toward zero
div_trunc(a, b) == IF a >= 0 THEN a \div b ELSE -((-a) \div b)

\* i64::div_euclid for a positive divisor: the quotient rounds toward
\* negative infinity
div_euclid(a, b) == a \div b

\* Iterator::min_by_key over the dates of ws with key |target - candidate|:
\* a fold that keeps the earlier element when two keys are equal
RECURSIVE NearestFrom(_, _, _, _)
NearestFrom(ws, target, i, best) ==
    IF i > Len(ws) THEN best
    ELSE NearestFrom(ws, target, i + 1,
                     IF Abs(NumDays(target, ws[i])) < Abs(NumDays(target, best))
                     THEN ws[i] ELSE best)

Nearest(ws, target) == NearestFrom(ws, target, 2, ws[1])

\* the inferred target itself, not snapped to a known week
InferWeekUnsnapped(ws, requested, now) ==
    LET today_week == Nearest(ws, now)
        delta_weeks == div_euclid(NumDays(requested, now), DaysPerWeek)
    IN  PlusDays(today_week, delta_weeks * DaysPerWeek)

\* lines 176-189: infer the week from the one that best represents today
InferWeek(ws, requested, now) ==
    LET today_week == Nearest(ws, now)
        delta_weeks == div_euclid(NumDays(requested, now), DaysPerWeek)
        inferred_target == PlusDays(today_week, delta_weeks * DaysPerWeek)
    IN  Nearest(ws, inferred_target)

choose_inferred_week_start(ws, requested, now) ==
    IF Len(ws) = 0 THEN None
    ELSE LET containing == {i \in 1..Len(ws) : ContainsDate(ws[i], requested)}
         IN  IF containing # {}
             THEN Some(ws[CHOOSE i \in containing : \A j \in containing : i <= j])
             ELSE Some(InferWeek(ws, requested, now))

(***************************************************************************)
(* SpecWeek: choose_inferred_week_start applied to one input.              *)
(***************************************************************************)
\* three consecutive Mondays and a Thursday (a week overlapping two others)
WeekCandidates == {Monday0, Monday0 + 7, Monday0 + 14, Monday0 + 3}

DateRange == (Monday0 - DateSpan)..(Monday0 + 14 + DateSpan)

InitWeek ==
    /\ week_starts \in SeqsUpTo(WeekCandidates, MaxWeeks)
    /\ requested_date \in DateRange
    /\ today \in DateRange
    /\ chosen = None
    /\ wk_pc = "call"
    /\ crate = "lib"
    /\ ParseIdle /\ FnIdle /\ QueryIdle

ChooseWeek ==
    /\ wk_pc = "call"
    /\ chosen' = choose_inferred_week_start(week_starts, requested_date, today)
    /\ wk_pc' = "returned"
    /\ UNCHANGED <<crate, week_starts, requested_date, today, parseVars, fnVars, queryVars>>

NextWeek == ChooseWeek

SpecWeek == InitWeek /\ [][NextWeek]_vars

(***************************************************************************)
(* C4: if the requested date lies in [w, w + 6 days] for a known week      *)
(* start w, the result is the first such w in input order, whatever today  *)
(* is (the expected value does not mention today, and today ranges over    *)
(* all of DateRange).                                                      *)
(***************************************************************************)
InWeekOf(w, d) == \E k \in 0..6 : d = w + k

C4_ExactContainment ==
    wk_pc = "returned" =>
        \A i \in 1..Len(week_starts) :
            ( /\ InWeekOf(week_starts[i], requested_date)
              /\ \A j \in 1..(i - 1) : ~InWeekOf(week_starts[j], requested_date) )
            => chosen = Some(week_starts[i])

\* the requested date is the last day of the second listed week only, and
\* today is nearer to the first
C4_Witness ==
    /\ wk_pc = "returned"
    /\ week_starts = <<Monday0 + 7, Monday0>>
    /\ requested_date = Monday0 + 6
    /\ today = Monday0 + 8
    /\ chosen = Some(Monday0)

(***************************************************************************)
(* C5: when no known week contains the requested date (and the list is not *)
(* empty), the result is the candidate nearest to                          *)
(* today_week + 7 * delta_weeks, today_week being the candidate nearest to *)
(* today and delta_weeks the floor of (requested - today) / 7; of two      *)
(* candidates equally near, the earlier in input order wins.               *)
(***************************************************************************)
Distance(a, b) == IF a >= b THEN a - b ELSE b - a

\* the first index of ws whose date is at minimal distance from target
FirstNearestIdx(ws, target) ==
    CHOOSE i \in 1..Len(ws) :
        /\ \A j \in 1..Len(ws) : Distance(ws[i], target) <= Distance(ws[j], target)
        /\ \A j \in 1..(i - 1) : Distance(ws[j], target) > Distance(ws[i], target)

\* the integer k with 7k <= n < 7k + 7
FloorWeeks(n) == CHOOSE k \in (-(Abs(n) + 1))..(Abs(n) + 1) : 7 * k <= n /\ n < 7 * k + 7

C5_TieWitness ==
    /\ wk_pc = "returned"
    /\ week_starts = <<Monday0 + 14, Monday0>>
    /\ today = Monday0 + 15
    /\ requested_date = Monday0 + 10
    /\ chosen = Some(Monday0 + 14)

WeekDoc(tag) ==
    <<LunchHeader, " Soup " \o tag, " Pasta " \o tag, " Curry " \o tag, " Fish " \o tag,
      " Pizza " \o tag>>

\* links with anchor texts such as "w/c Monday 9th February 2026" and "w/c
\* Tuesday 10th February 2026" (the weekday word is not checked against the
\* date), a link whose date is only in the PDF text ("Week Commencing Monday
\* 16th February 2026") and one with no date at all.  These are the texts of
\* main.rs; lib.rs reads the same dates from the phrases of March 2026
\* (month_of)
LinkChoices ==
    {[week |-> Some(Monday0), pdf_week |-> None, doc |-> WeekDoc("A")],
     [week |-> Some(Monday0 + 1), pdf_week |-> None, doc |-> WeekDoc("C")],
     [week |-> None, pdf_week |-> Some(Monday0 + 7), doc |-> WeekDoc("D")],
     [week |-> None, pdf_week |-> None, doc |-> WeekDoc("E")]}

\* menus of fetch_meal_for_date: (week_start, text) of every link whose week
\* is known from the anchor text or else from the PDF text
RECURSIVE MenusOf(_)
MenusOf(ls) ==
    IF Len(ls) = 0 THEN <<>>
    ELSE LET l == Head(ls)
         IN  (IF l.week # None THEN <<[week_start |-> l.week[1], doc |-> l.doc]>>
              ELSE IF l.pdf_week # None THEN <<[week_start |-> l.pdf_week[1], doc |-> l.doc]>>
              ELSE <<>>) \o MenusOf(Tail(ls))

\* HashMap::insert of every entry of `from` into `into`
Merge(into, from) == from @@ into

\* build_index's loop body with the week taken from the PDF text when the
\* anchor text has none
IndexLinkFromPdfText(c, idx, l) ==
    IF l.week # None THEN Merge(idx, parse_weekly_menu(c, l.doc, l.week[1]))
    ELSE IF l.pdf_week # None THEN Merge(idx, parse_weekly_menu(c, l.doc, l.pdf_week[1]))
    ELSE idx

\* the body of build_index's for loop, after the download: the index
\* after the link l (same text in lib.rs and main.rs)
IndexLink(c, idx, l) ==
    IF l.week # None THEN Merge(idx, parse_weekly_menu(c, l.doc, l.week[1])) ELSE idx

\* main.rs build_index: the weeks of the links with an anchor-text date
RECURSIVE BuildIndexFrom(_, _)
BuildIndexFrom(idx, ls) ==
    IF Len(ls) = 0 THEN idx
    ELSE BuildIndexFrom(IndexLink("main", idx, Head(ls)), Tail(ls))

build_index(ls) == BuildIndexFrom(EmptyMap, ls)

\* lib.rs fetch_meal_for_date, with what it computed on the way
fetch_meal_for_date(ls, date, period, now) ==
    LET menus == MenusOf(ls)
        week_starts_ == [i \in 1..Len(menus) |-> menus[i].week_start]
        target == choose_inferred_week_start(week_starts_, date, now)
    IN  IF target = None
        THEN [resolved |-> None, via |-> "none", mapped_date |-> date, answer |-> None]
        ELSE LET target_week_start == target[1]
                 matched == CHOOSE i \in 1..Len(menus) :
                               /\ menus[i].week_start = target_week_start
                               /\ \A j \in 1..(i - 1) : menus[j].week_start # target_week_start
                 week_menus == parse_weekly_menu("lib", menus[matched].doc, target_week_start)
                 period_key == to_lowercase(period)
                 key == KeyOf(date, period_key)
                 weekday_offset == num_days_from_monday(date)
                 mapped_date == PlusDays(target_week_start, weekday_offset)
                 mapped_key == KeyOf(mapped_date, period_key)
             IN  IF key \in DOMAIN week_menus
                 THEN [resolved |-> target, via |-> "direct", mapped_date |-> mapped_date,
                       answer |-> Some(week_menus[key])]
                 ELSE [resolved |-> target,
                       via |-> IF mapped_key \in DOMAIN week_menus THEN "mapped" ELSE "none",
                       mapped_date |-> mapped_date,
                       answer |-> Get(week_menus, mapped_key)]

\* main.rs get_meal: Some(meal) for the 200 response, None for the 404
get_meal(idx, date, period) == Get(idx, KeyOf(date, to_lowercase(period)))

(***************************************************************************)
(* SpecQuery: one (date, period) query, sent to the lib.rs path or to the   *)
(* main.rs server.                                                         *)
(***************************************************************************)
QueryDates == (Monday0 - 1)..(Monday0 - 1 + QuerySpan)

InitQuery ==
    /\ links \in SeqsUpTo(LinkChoices, MaxLinks)
    /\ index = build_index(links)
    /\ b_pos = Len(links) /\ b_pc = "done"
    /\ q_date \in QueryDates
    /\ q_period \in {"dinner", "Lunch"}
    /\ q_today \in {Monday0 + 1, Monday0 + 9}
    /\ lib_done = FALSE /\ main_done = FALSE
    /\ q_resolved = None /\ q_via = "none" /\ q_mapped_date = q_date
    /\ answer_lib = None /\ answer_main = None
    /\ crate \in Crates
    /\ srv_pc = Unused /\ shared_index = Unused /\ lock = Unused /\ reqs = Unused
    /\ ParseIdle /\ FnIdle /\ WeekIdle

FetchMealForDate ==
    /\ crate = "lib" /\ ~lib_done
    /\ \E r \in {fetch_meal_for_date(links, q_date, q_period, q_today)} :
           /\ q_resolved' = r.resolved
           /\ q_via' = r.via
           /\ q_mapped_date' = r.mapped_date
           /\ answer_lib' = r.answer
    /\ lib_done' = TRUE
    /\ UNCHANGED <<links, index, b_pos, b_pc, q_date, q_period, q_today, main_done,
                   answer_main>>
    /\ UNCHANGED <<crate, parseVars, fnVars, weekVars, serverVars>>

GetMeal ==
    /\ crate = "main" /\ ~main_done
    /\ answer_main' = get_meal(index, q_date, q_period)
    /\ main_done' = TRUE
    /\ UNCHANGED <<links, index, b_pos, b_pc, q_date, q_period, q_today, lib_done,
                   q_resolved, q_via, q_mapped_date, answer_lib>>
    /\ UNCHANGED <<crate, parseVars, fnVars, weekVars, serverVars>>

NextQuery == FetchMealForDate \/ GetMeal

SpecQuery == InitQuery /\ [][NextQuery]_vars

(***************************************************************************)
(* SpecIndex: build_index (lib.rs and main.rs) run link by link.  Each     *)
(* download either succeeds or makes the build return the error.           *)
(***************************************************************************)
QueryArgsIdle ==
    /\ q_date = Unused /\ q_period = Unused /\ q_today = Unused
    /\ lib_done = Unused /\ main_done = Unused /\ q_resolved = Unused /\ q_via = Unused
    /\ q_mapped_date = Unused /\ answer_lib = Unused /\ answer_main = Unused

queryArgs == <<q_date, q_period, q_today, lib_done, main_done, q_resolved, q_via,
               q_mapped_date, answer_lib, answer_main>>

ServerIdle == srv_pc = Unused /\ shared_index = Unused /\ lock = Unused /\ reqs = Unused

InitIndex ==
    /\ crate \in Crates
    /\ links \in SeqsUpTo(LinkChoices, MaxLinks)
    /\ index = EmptyMap
    /\ b_pos = 0 /\ b_pc = "loop"
    /\ QueryArgsIdle /\ ServerIdle /\ ParseIdle /\ FnIdle /\ WeekIdle

\* one iteration whose download_and_extract_text succeeds
BuildIndexLink ==
    /\ b_pc = "loop" /\ b_pos < Len(links)
    /\ index' = IndexLink(crate, index, links[b_pos + 1])
    /\ b_pos' = b_pos + 1
    /\ UNCHANGED <<crate, links, b_pc, queryArgs, serverVars, parseVars, fnVars, weekVars>>

\* download_and_extract_text(..)? returns the error
BuildIndexDownloadFails ==
    /\ b_pc = "loop" /\ b_pos < Len(links)
    /\ b_pc' = "failed"
    /\ UNCHANGED <<crate, links, index, b_pos, queryArgs, serverVars, parseVars, fnVars,
                   weekVars>>

\* Ok(index)
BuildIndexReturn ==
    /\ b_pc = "loop" /\ b_pos = Len(links)
    /\ b_pc' = "done"
    /\ UNCHANGED <<crate, links, index, b_pos, queryArgs, serverVars, parseVars, fnVars,
                   weekVars>>

NextIndex == BuildIndexLink \/ BuildIndexDownloadFails \/ BuildIndexReturn

SpecIndex == InitIndex /\ [][NextIndex]_vars

(***************************************************************************)
(* C11 (as stated): in the merged index a later insertion replaces an      *)
(* earlier one under the same key, and two documents contribute the same   *)
(* key only if they have the same week-start date.                         *)
(***************************************************************************)
\* the per-week map of link i, empty for a link that is not indexed
WeekMapOf(i) ==
    IF links[i].week = None THEN EmptyMap
    ELSE parse_weekly_menu(crate, links[i].doc, links[i].week[1])

\* the last link among the first n that has an entry under k
LastWith(k, n) == CHOOSE i \in 1..n : /\ k \in DOMAIN WeekMapOf(i)
                                      /\ \A j \in (i + 1)..n : k \notin DOMAIN WeekMapOf(j)

C11_LaterReplacesEarlier ==
    b_pc \in {"loop", "done"} =>
        /\ DOMAIN index = UNION {DOMAIN WeekMapOf(i) : i \in 1..b_pos}
        /\ \A k \in DOMAIN index : index[k] = WeekMapOf(LastWith(k, b_pos))[k]

C11_MergeNeverCollides ==
    /\ C11_LaterReplacesEarlier
    /\ b_pc = "done" =>
          \A i, j \in 1..Len(links) :
              (/\ i < j /\ links[i].week # None /\ links[j].week # None
               /\ DOMAIN WeekMapOf(i) \cap DOMAIN WeekMapOf(j) # {})
                  => links[i].week = links[j].week

(***************************************************************************)
(* C12: a link with no recognised week-commencing date adds nothing to the *)
(* index and the build goes on to the next link; the index returned holds  *)
(* the entries of the dated links only.                                    *)
(***************************************************************************)
DatedLinks == SelectSeq(links, LAMBDA l : l.week # None)

RECURSIVE MergeAll(_, _, _)
MergeAll(c, idx, ls) ==
    IF Len(ls) = 0 THEN idx
    ELSE MergeAll(c, Merge(idx, parse_weekly_menu(c, Head(ls).doc, Head(ls).week[1])),
                  Tail(ls))

C12_UndatedLinkSkipped ==
    /\ [](b_pc = "done" => index = MergeAll(crate, EmptyMap, DatedLinks))
    /\ [][(b_pc = "loop" /\ b_pos' = b_pos + 1 /\ links[b_pos'].week = None)
            => (index' = index /\ b_pc' = "loop")]_vars

\* an undated link (its date is only in the PDF text) followed by a dated
\* one: the build returned the second link's five lunches
C12_Witness ==
    /\ b_pc = "done" /\ Len(links) = 2
    /\ links[1].week = None /\ links[1].pdf_week # None /\ links[2].week = Some(Monday0)
    /\ Cardinality(DOMAIN index) = 5
    /\ index["2026-02-09-lunch"] = "Soup A"

(***************************************************************************)
(* C3: both query paths answer with the text under the direct key, else    *)
(* with the text under the key of resolved week start + days since Monday  *)
(* of the date, else with not found.                                       *)
(***************************************************************************)
\* the lookup as stated, on the stored entries `map`
ClaimedLookup(map, date, period, resolved) ==
    LET period_key == to_lowercase(period)
        key == KeyOf(date, period_key)
    IN  IF key \in DOMAIN map THEN Some(map[key])
        ELSE IF resolved = None THEN None
        ELSE Get(map, KeyOf(PlusDays(resolved[1], num_days_from_monday(date)), period_key))

\* the entries of the week resolved for the query on the lib.rs path
ResolvedWeekMenus ==
    IF q_resolved = None THEN EmptyMap
    ELSE LET menus == MenusOf(links)
             matched == CHOOSE i \in 1..Len(menus) :
                           /\ menus[i].week_start = q_resolved[1]
                           /\ \A j \in 1..(i - 1) : menus[j].week_start # q_resolved[1]
         IN  parse_weekly_menu("lib", menus[matched].doc, q_resolved[1])

\* the week resolved for the query among the weeks the server indexed
IndexedWeeks == SelectSeq([i \in 1..Len(links) |-> links[i].week], LAMBDA w : w # None)
ResolvedIndexedWeek ==
    choose_inferred_week_start([i \in 1..Len(IndexedWeeks) |-> IndexedWeeks[i][1]],
                               q_date, q_today)

C3_LookupBothPaths ==
    /\ lib_done => answer_lib = ClaimedLookup(ResolvedWeekMenus, q_date, q_period, q_resolved)
    /\ main_done => answer_main = ClaimedLookup(index, q_date, q_period, ResolvedIndexedWeek)

\* the lib.rs path alone answers as stated
C3_LookupLibPath ==
    lib_done => answer_lib = ClaimedLookup(ResolvedWeekMenus, q_date, q_period, q_resolved)

(***************************************************************************)
(* C7: an answer through the weekday-mapped key is the resolved week's     *)
(* entry for the day of the week of the requested date.                    *)
(***************************************************************************)
C7_WeekdayMatched ==
    (lib_done /\ q_via = "mapped") =>
        LET same_weekday == CHOOSE d \in q_resolved[1]..(q_resolved[1] + LastDayOffset) :
                               num_days_from_monday(d) = num_days_from_monday(q_date)
        IN  /\ q_mapped_date = same_weekday
            /\ answer_lib = Get(ResolvedWeekMenus, KeyOf(same_weekday, to_lowercase(q_period)))

\* C7 for the weeks that start on a Monday
C7_WeekdayMatchedMondayWeeks ==
    (lib_done /\ q_via = "mapped" /\ num_days_from_monday(q_resolved[1]) = 0) =>
        /\ num_days_from_monday(q_mapped_date) = num_days_from_monday(q_date)
        /\ answer_lib = Get(ResolvedWeekMenus, KeyOf(q_mapped_date, to_lowercase(q_period)))

(***************************************************************************)
(* SpecServer: the server of main.rs.  main awaits build_index, moves the  *)
(* map into Arc<Mutex<..>> and serves; every request runs its own get_meal *)
(* handler, and the handlers interleave at the lock.                       *)
(***************************************************************************)
Reqs == 1..MaxRequests

\* the pages served from: no link, one link of each kind, two dated weeks
ServerPages == SeqsUpTo(LinkChoices, 1)
               \cup {<<[week |-> Some(Monday0), pdf_week |-> None, doc |-> WeekDoc("A")],
                       [week |-> Some(Monday0 + 1), pdf_week |-> None, doc |-> WeekDoc("C")]>>}

\* the date parameters sent; the last one is no date for parse_date_param
ServerDateTexts == {"2026-02-10", "2026/02/10", "10-02-2026"}
ServerPeriods == {"Lunch", "dinner"}

NoRequest == [pc |-> "idle", date |-> "", period |-> "", key |-> "", answer |-> None]

\* the response: its status code and, for 200, the meal
Response(status, meal) == Some([status |-> status, meal |-> meal])

InitServer ==
    /\ crate = "main"
    /\ links \in ServerPages
    /\ index = EmptyMap
    /\ b_pos = 0 /\ b_pc = "loop"
    /\ srv_pc = "building" /\ shared_index = None /\ lock = None
    /\ reqs = [r \in Reqs |-> NoRequest]
    /\ QueryArgsIdle /\ ParseIdle /\ FnIdle /\ WeekIdle

\* Arc::new(Mutex::new(index)), the router, the listener, axum::serve
MainServe ==
    /\ srv_pc = "building" /\ b_pc = "done"
    /\ shared_index' = Some(index)
    /\ srv_pc' = "serving"
    /\ UNCHANGED <<crate, links, index, b_pos, b_pc, lock, reqs, queryArgs, parseVars, fnVars,
                   weekVars>>

\* main returns the error of build_index (`??`) or of TcpListener::bind (`?`)
MainExit ==
    /\ srv_pc = "building" /\ b_pc \in {"failed", "done"}
    /\ srv_pc' = "exited"
    /\ UNCHANGED <<crate, links, index, b_pos, b_pc, shared_index, lock, reqs, queryArgs,
                   parseVars, fnVars, weekVars>>

\* a GET /meal?date=..&period=.. reaches the listening server
RequestArrives(r) ==
    /\ srv_pc = "serving" /\ reqs[r].pc = "idle"
    /\ \E date \in ServerDateTexts, period \in ServerPeriods :
          reqs' = [reqs EXCEPT ![r] = [NoRequest EXCEPT !.pc = "handling", !.date = date,
                                                       !.period = period]]
    /\ UNCHANGED <<crate, links, index, b_pos, b_pc, srv_pc, shared_index, lock, queryArgs,
                   parseVars, fnVars, weekVars>>

\* get_meal up to the key: 400 for a date that does not parse
GetMealKey(r) ==
    /\ reqs[r].pc = "handling"
    /\ LET date == parse_date_param(reqs[r].date)
       IN  reqs' = IF date = None
                   THEN [reqs EXCEPT ![r].pc = "answered", ![r].answer = Response(400, "")]
                   ELSE [reqs EXCEPT ![r].pc = "keyed",
                                     ![r].key = KeyOf(date[1], to_lowercase(reqs[r].period))]
    /\ UNCHANGED <<crate, links, index, b_pos, b_pc, srv_pc, shared_index, lock, queryArgs,
                   parseVars, fnVars, weekVars>>

\* menu_index.lock().unwrap(): waits until no handler holds the guard
GetMealLock(r) ==
    /\ reqs[r].pc = "keyed" /\ lock = None
    /\ lock' = Some(r)
    /\ reqs' = [reqs EXCEPT ![r].pc = "locked"]
    /\ UNCHANGED <<crate, links, index, b_pos, b_pc, srv_pc, shared_index, queryArgs,
                   parseVars, fnVars, weekVars>>

\* the handler that takes the entry it serves out of the map
GetMealRespondRemoves(r) ==
    /\ reqs[r].pc = "locked" /\ lock = Some(r)
    /\ LET idx == shared_index[1]
           key == reqs[r].key
       IN  /\ reqs' = [reqs EXCEPT ![r].pc = "answered",
                                   ![r].answer = IF key \in DOMAIN idx
                                                 THEN Response(200, idx[key])
                                                 ELSE Response(404, "")]
           /\ shared_index' = Some([k \in DOMAIN idx \ {key} |-> idx[k]])
    /\ lock' = None
    /\ UNCHANGED <<crate, links, index, b_pos, b_pc, srv_pc, queryArgs,
                   parseVars, fnVars, weekVars>>

\* index.get(&key), the 200 or the 404 response; the guard is dropped
GetMealRespond(r) ==
    /\ reqs[r].pc = "locked" /\ lock = Some(r)
    /\ LET idx == shared_index[1]
           key == reqs[r].key
       IN  /\ reqs' = [reqs EXCEPT ![r].pc = "answered",
                                   ![r].answer = IF key \in DOMAIN idx
                                                 THEN Response(200, idx[key])
                                                 ELSE Response(404, "")]
           /\ shared_index' = shared_index
    /\ lock' = None
    /\ UNCHANGED <<crate, links, index, b_pos, b_pc, srv_pc, queryArgs,
                   parseVars, fnVars, weekVars>>

NextServer ==
    \/ BuildIndexLink \/ BuildIndexDownloadFails \/ BuildIndexReturn
    \/ MainServe \/ MainExit
    \/ \E r \in Reqs : RequestArrives(r)
    \/ \E r \in Reqs : GetMealKey(r)
    \/ \E r \in Reqs : GetMealLock(r)
    \/ \E r \in Reqs : GetMealRespond(r)

SpecServer == InitServer /\ [][NextServer]_vars

(***************************************************************************)
(* C25: ownership of the server's index.                                   *)
(***************************************************************************)
\* C25: the shared MenuIndex is completely built and merged by build_index
\* before any /meal request is served; handling requests leaves it
\* unchanged; two requests with the same (date, period) get the same answer
\* under every interleaving.
C25_IndexBuiltOnceThenReadOnly ==
    /\ [](\A r \in Reqs : reqs[r].pc # "idle" =>
              (srv_pc = "serving" /\ b_pc = "done" /\ b_pos = Len(links)))
    /\ [][(srv_pc = "building" /\ srv_pc' = "serving") =>
            shared_index' = Some(build_index(links))]_vars
    /\ [][srv_pc = "serving" => shared_index' = shared_index]_vars
    /\ [](\A r1 \in Reqs, r2 \in Reqs :
              (/\ reqs[r1].pc = "answered" /\ reqs[r2].pc = "answered"
               /\ parse_date_param(reqs[r1].date) = parse_date_param(reqs[r2].date)
               /\ to_lowercase(reqs[r1].period) = to_lowercase(reqs[r2].period))
              => reqs[r1].answer = reqs[r2].answer)

\* two requests for the same day and period, written with '-' and with '/',
\* both answered with the meal while a week was indexed
C25_Witness ==
    /\ reqs[1].pc = "answered" /\ reqs[2].pc = "answered"
    /\ reqs[1].date = "2026-02-10" /\ reqs[2].date = "2026/02/10"
    /\ reqs[1].period = "Lunch" /\ reqs[2].period = "Lunch"
    /\ reqs[1].answer = Response(200, "Pasta A")
    /\ reqs[2].answer = Response(200, "Pasta A")

====
